---- MODULE Spec2Model ----
(***************************************************************************)
(* Model of pluck: the XPath-subset parser (xpath.ts), the axis/predicate  *)
(* evaluator (xpath.ts), the pseudo-element translator (pseudo.ts) and the *)
(* Selector result abstraction (selector.ts) over a shared, mutable DOM    *)
(* tree.                                                                   *)
(*                                                                         *)
(* Strings are sequences of one-character strings, so that slicing,        *)
(* prefix tests and the regular expressions of the source are computed     *)
(* character by character.  DOM nodes are natural numbers; node 0 is the   *)
(* Document.                                                               *)
(***************************************************************************)
EXTENDS Integers, Sequences, FiniteSets, TLC

VARIABLES
    docId,        \* which of the input documents pluck(html) was given
    parentNode,   \* Node.parentNode of every node (NoNode when detached)
    childNodes,   \* Node.childNodes of every node, in order
    sels,         \* the caller's variables: Selectors and projections
    removedSels,  \* the Selectors on which remove() has been called
    removedTags,  \* the tag names t for which doc.css(t).remove() has run
    pexpr,        \* parseXPath: the expression being parsed
    remaining,    \* parseXPath: local `remaining`
    psteps,       \* parseXPath: local `steps`
    ppc,          \* parseXPath: position in the code
    pstep,        \* parseStep: axis and node test of the step being read
    premaining,   \* parsePredicates: local `remaining`
    ppreds,       \* parsePredicates: local `predicates`
    rxPattern,    \* extractRegex: argument `pattern` (its source)
    rxText,       \* extractRegex: argument `text`
    rxLastIndex,  \* extractRegex: globalRegex.lastIndex
    rxResults,    \* extractRegex: local `results` / the value returned
    rxpc          \* extractRegex: position in the code

vars == <<docId, parentNode, childNodes, sels, removedSels, removedTags,
          pexpr, remaining, psteps, ppc, pstep, premaining, ppreds,
          rxPattern, rxText, rxLastIndex, rxResults, rxpc>>

domVars == <<docId, parentNode, childNodes>>
selVars == <<sels, removedSels, removedTags>>
parseVars == <<pexpr, remaining, psteps, ppc, pstep, premaining, ppreds>>
reVars == <<rxPattern, rxText, rxLastIndex, rxResults, rxpc>>

(***************************************************************************)
(* Bounds                                                                  *)
(***************************************************************************)
MaxSels == 1          \* Selector variables of the caller besides the root
MaxRemoves == 1       \* calls of remove()
MaxCount == 3         \* length of the value list of a Selector the caller keeps
MaxExprLen == 3       \* length of the exhaustively enumerated expressions
MaxK == 4             \* largest number k written in a positional predicate
MaxTextLen == 3       \* length of the texts handed to extractRegex
MaxResults == 4       \* length of `results` up to which the exec loop is followed

(***************************************************************************)
(* Strings                                                                 *)
(***************************************************************************)
NoNode == -1
Null == [null |-> TRUE]           \* JavaScript null / undefined

Lower == {"a","b","c","d","e","f","g","h","i","j","k","l","m","n","o","p",
          "q","r","s","t","u","v","w","x","y","z"}
Digits == {"0","1","2","3","4","5","6","7","8","9"}
Upper == {"A", "B", "P"}
WordChars == Lower \cup Upper \cup Digits \cup {"_", "-"}      \* the class [\w-]
Space == {" ", "\n", "\t"}                          \* the class \s

Min(S) == CHOOSE x \in S : \A y \in S : x <= y

slice(s, from) == SubSeq(s, from + 1, Len(s))           \* s.slice(from)
slice2(s, from, to) == SubSeq(s, from + 1, to)          \* s.slice(from, to)

startsWith(s, p) == Len(s) >= Len(p) /\ SubSeq(s, 1, Len(p)) = p
endsWith(s, p) == Len(s) >= Len(p) /\ SubSeq(s, Len(s) - Len(p) + 1, Len(s)) = p

RECURSIVE trimStart(_)
trimStart(s) ==
    IF s # <<>> /\ Head(s) \in Space THEN trimStart(Tail(s)) ELSE s

RECURSIVE trimEnd(_)
trimEnd(s) ==
    IF s # <<>> /\ s[Len(s)] \in Space THEN trimEnd(SubSeq(s, 1, Len(s) - 1)) ELSE s

trim(s) == trimEnd(trimStart(s))

\* length of the longest prefix of s made of characters of class C
RECURSIVE span(_, _)
span(s, C) == IF s # <<>> /\ Head(s) \in C THEN 1 + span(Tail(s), C) ELSE 0

digitVal(c) ==
    CASE c = "0" -> 0 [] c = "1" -> 1 [] c = "2" -> 2 [] c = "3" -> 3
      [] c = "4" -> 4 [] c = "5" -> 5 [] c = "6" -> 6 [] c = "7" -> 7
      [] c = "8" -> 8 [] c = "9" -> 9

RECURSIVE parseInt(_)
parseInt(s) ==
    IF s = <<>> THEN 0 ELSE 10 * parseInt(SubSeq(s, 1, Len(s) - 1)) + digitVal(s[Len(s)])

RECURSIVE Flatten(_)
Flatten(ss) == IF ss = <<>> THEN <<>> ELSE Head(ss) \o Flatten(Tail(ss))

Range(s) == {s[i] : i \in 1..Len(s)}

indexOf(s, x) ==              \* Array.prototype.indexOf, 0-based, -1 if absent
    IF \E i \in 1..Len(s) : s[i] = x
    THEN Min({i \in 1..Len(s) : s[i] = x}) - 1
    ELSE -1

\* keywords of the grammar
kText == <<"t","e","x","t","(",")">>
kNode == <<"n","o","d","e","(",")">>
kLast == <<"l","a","s","t","(",")">>
kPosition == <<"p","o","s","i","t","i","o","n","(",")">>
kNot == <<"n","o","t">>
kOr == <<" ","o","r"," ">>
kAnd == <<" ","a","n","d"," ">>
kPseudoText == <<":",":","t","e","x","t">>
kPseudoAttr == <<":",":","a","t","t","r","(">>
kFollowingSibling == <<"f","o","l","l","o","w","i","n","g","-","s","i","b","l","i","n","g">>
kPrecedingSibling == <<"p","r","e","c","e","d","i","n","g","-","s","i","b","l","i","n","g">>
kFollowing == <<"f","o","l","l","o","w","i","n","g">>
kPreceding == <<"p","r","e","c","e","d","i","n","g">>
kAncestor == <<"a","n","c","e","s","t","o","r">>
kParent == <<"p","a","r","e","n","t">>
kSelf == <<"s","e","l","f">>

kColons == <<":", ":">>

(***************************************************************************)
(* Expression parser (xpath.ts)                                            *)
(***************************************************************************)
NoStep == [axis |-> "none", nodeTest |-> [type |-> "none", name |-> <<>>],
           predicates |-> <<>>]
NoPred == [type |-> "none"]

mkStep(axis, ttype, name, preds) ==
    [axis |-> axis, nodeTest |-> [type |-> ttype, name |-> name], predicates |-> preds]

\* findMatchingBracket: 0-based index of the closing bracket, or -1
RECURSIVE findMatchingBracketFrom(_, _, _, _)
findMatchingBracketFrom(expr, i, depth, inString) ==
    IF i >= Len(expr) THEN -1
    ELSE LET char == expr[i + 1] IN
         IF inString # ""
         THEN findMatchingBracketFrom(expr, i + 1, depth,
                                      IF char = inString THEN "" ELSE inString)
         ELSE IF char = "\"" \/ char = "'"
         THEN findMatchingBracketFrom(expr, i + 1, depth, char)
         ELSE IF char = "["
         THEN findMatchingBracketFrom(expr, i + 1, depth + 1, inString)
         ELSE IF char = "]"
         THEN (IF depth - 1 = 0 THEN i
               ELSE findMatchingBracketFrom(expr, i + 1, depth - 1, inString))
         ELSE findMatchingBracketFrom(expr, i + 1, depth, inString)

findMatchingBracket(expr) == findMatchingBracketFrom(expr, 0, 0, "")

\* splitByOperator: split content on operator at bracket/quote depth 0
RECURSIVE splitByOperatorFrom(_, _, _, _, _, _, _)
splitByOperatorFrom(content, operator, i, parts, current, depth, inString) ==
    IF i >= Len(content)
    THEN (IF trim(current) # <<>> THEN Append(parts, trim(current)) ELSE parts)
    ELSE LET char == content[i + 1] IN
         IF inString # ""
         THEN splitByOperatorFrom(content, operator, i + 1, parts, Append(current, char),
                                  depth, IF char = inString THEN "" ELSE inString)
         ELSE IF char = "\"" \/ char = "'"
         THEN splitByOperatorFrom(content, operator, i + 1, parts, Append(current, char),
                                  depth, char)
         ELSE IF char = "(" \/ char = "["
         THEN splitByOperatorFrom(content, operator, i + 1, parts, Append(current, char),
                                  depth + 1, inString)
         ELSE IF char = ")" \/ char = "]"
         THEN splitByOperatorFrom(content, operator, i + 1, parts, Append(current, char),
                                  depth - 1, inString)
         ELSE IF depth = 0 /\ startsWith(slice(content, i), operator)
         THEN splitByOperatorFrom(content, operator, i + Len(operator),
                                  Append(parts, trim(current)), <<>>, depth, inString)
         ELSE splitByOperatorFrom(content, operator, i + 1, parts, Append(current, char),
                                  depth, inString)

splitByOperator(content, operator) ==
    splitByOperatorFrom(content, operator, 0, <<>>, <<>>, 0, "")

\* the regular-expression fragments of parsePredicateContent
skipWs(s) == slice(s, span(s, Space))                        \* \s*
isQuote(c) == c = "'" \/ c = "\""

\* ['"]([^'"]*)['"] at the start of s
readQuoted(s) ==
    IF s # <<>> /\ isQuote(s[1])
    THEN LET n == span(Tail(s), {c \in Range(s) : ~isQuote(c)}) IN
         IF n + 2 <= Len(s)
         THEN [ok |-> TRUE, value |-> SubSeq(s, 2, n + 1), rest |-> slice(s, n + 2)]
         ELSE [ok |-> FALSE, value |-> <<>>, rest |-> s]
    ELSE [ok |-> FALSE, value |-> <<>>, rest |-> s]

\* @([\w-]+) at the start of s
readAttrName(s) ==
    IF s # <<>> /\ s[1] = "@" /\ span(Tail(s), WordChars) > 0
    THEN LET n == span(Tail(s), WordChars) IN
         [ok |-> TRUE, name |-> SubSeq(s, 2, n + 1), rest |-> slice(s, n + 1)]
    ELSE [ok |-> FALSE, name |-> <<>>, rest |-> s]

\* \s*OP\s*['"]([^'"]*)['"] at the start of s
readOpQuoted(s, op) ==
    LET a == skipWs(s) IN
    IF startsWith(a, op) THEN readQuoted(skipWs(slice(a, Len(op))))
    ELSE [ok |-> FALSE, value |-> <<>>, rest |-> s]

\* (<|>|<=|>=) then \s*(\d+): the alternatives are tried in this order
readCompareOp(a, op) ==
    LET d == skipWs(slice(a, Len(op))) IN
    [ok |-> TRUE, operator |-> op, value |-> parseInt(SubSeq(d, 1, span(d, Digits)))]

readCompareAt(a, ops) ==
    LET hit == {i \in 1..Len(ops) :
                  startsWith(a, ops[i]) /\ span(skipWs(slice(a, Len(ops[i]))), Digits) > 0}
    IN  IF hit = {} THEN [ok |-> FALSE, operator |-> <<>>, value |-> 0]
        ELSE readCompareOp(a, ops[Min(hit)])

readCompare(s, ops) == readCompareAt(skipWs(s), ops)

posOps == << <<"<">>, <<">">>, <<"<", "=">>, <<">", "=">> >>

\* FUNC\s*\(\s*(@name|text()|.)\s*,\s*'value'\s*\) at the start of s:
\* \(\s* , then the subject, then \s*,\s*'value' , then \s*\)
openParen(a) == IF a # <<>> /\ a[1] = "(" THEN skipWs(Tail(a)) ELSE <<>>

readSubject(b, onAttr) ==
    LET at == readAttrName(b) IN
    [name |-> at.name,
     rest |-> IF onAttr THEN (IF at.ok THEN at.rest ELSE <<>>)
              ELSE IF startsWith(b, kText) THEN slice(b, 6)
              ELSE IF startsWith(b, <<".">>) THEN slice(b, 1)
              ELSE <<>>]

readValue(c) ==
    LET d == skipWs(c) IN
    IF d # <<>> /\ d[1] = "," THEN readQuoted(skipWs(Tail(d)))
    ELSE [ok |-> FALSE, value |-> <<>>, rest |-> <<>>]

closeParen(e) == e # <<>> /\ e[1] = ")"

readCallWith(sub, q) ==
    IF q.ok /\ closeParen(skipWs(q.rest))
    THEN [ok |-> TRUE, name |-> sub.name, value |-> q.value]
    ELSE [ok |-> FALSE, name |-> <<>>, value |-> <<>>]

readCallFrom(sub) == readCallWith(sub, readValue(sub.rest))

readCall(s, fname, onAttr) ==
    IF startsWith(s, fname)
    THEN readCallFrom(readSubject(openParen(skipWs(slice(s, Len(fname)))), onAttr))
    ELSE [ok |-> FALSE, name |-> <<>>, value |-> <<>>]

kContains == <<"c","o","n","t","a","i","n","s">>
kStartsWith == <<"s","t","a","r","t","s","-","w","i","t","h">>
kEndsWith == <<"e","n","d","s","-","w","i","t","h">>

\* ^not\s*\(\s*(.+)\s*\)$ : the text between the bracket and the final one;
\* (.+) needs one character that is not a line break, and stops at a line break
notInnerOf(a) ==
    LET x == IF a # <<>> THEN SubSeq(a, 2, Len(a) - 1) ELSE <<>> IN
    IF a # <<>> /\ a[1] = "(" /\ a[Len(a)] = ")"
       /\ Len(a) >= 3 /\ "\n" \notin Range(trim(x)) /\ Range(x) # {"\n"}
    THEN [ok |-> TRUE, inner |-> trim(x)]
    ELSE [ok |-> FALSE, inner |-> <<>>]

notInner(content) ==
    IF startsWith(content, kNot) THEN notInnerOf(skipWs(slice(content, 3)))
    ELSE [ok |-> FALSE, inner |-> <<>>]

\* what one `if (match) return ...` block of parsePredicateContent decides
found(pred) == [ok |-> TRUE, pred |-> pred]
miss == [ok |-> FALSE, pred |-> NoPred]

\* the first block that returns
firstHit(blocks) ==
    LET hits == {i \in 1..Len(blocks) : blocks[i].ok} IN
    IF hits = {} THEN NoPred ELSE blocks[Min(hits)].pred

\* if (result && right) result = {type, left: result, right}
combine(kind, result, right) ==
    IF result.type # "none" /\ right.type # "none"
    THEN [type |-> kind, left |-> result, right |-> right]
    ELSE result

RECURSIVE parsePredicateContent(_)
RECURSIVE combineParts(_, _, _)
combineParts(parts, i, kind) ==
    \* the loop `for (let i = 1; i < parts.length; i++)` read from the end
    IF i = 1 THEN parsePredicateContent(parts[1])
    ELSE combine(kind, combineParts(parts, i - 1, kind), parsePredicateContent(parts[i]))

tryPosition(content) ==
    IF content # <<>> /\ span(content, Digits) = Len(content)
    THEN found([type |-> "position", index |-> parseInt(content)])
    ELSE miss

tryOperator(parts, kind) ==
    IF Len(parts) > 1 THEN found(combineParts(parts, Len(parts), kind)) ELSE miss

tryNotInner(inner) == IF inner.type # "none" THEN found([type |-> "not", inner |-> inner]) ELSE miss

tryNot(nt) == IF nt.ok THEN tryNotInner(parsePredicateContent(nt.inner)) ELSE miss

tryAttrCompare(at, q, type) ==
    IF at.ok /\ q.ok THEN found([type |-> type, name |-> at.name, value |-> q.value]) ELSE miss

tryAttrBlocks(at) ==
    << IF at.ok /\ at.rest = <<>> THEN found([type |-> "attr-exists", name |-> at.name]) ELSE miss,
       tryAttrCompare(at, readOpQuoted(at.rest, <<"=">>), "attr-equals"),
       tryAttrCompare(at, readOpQuoted(at.rest, <<"!", "=">>), "attr-not-equals") >>

tryTextCompare(content, q, type) ==
    IF startsWith(content, kText) /\ q.ok THEN found([type |-> type, value |-> q.value]) ELSE miss

tryLast(content) == IF content = kLast THEN found([type |-> "last"]) ELSE miss

tryPositionCompare(content, pc) ==
    IF startsWith(content, kPosition) /\ pc.ok
    THEN found([type |-> "position-compare", operator |-> pc.operator, value |-> pc.value])
    ELSE miss

tryAttrCall(c, type) ==
    IF c.ok THEN found([type |-> type, name |-> c.name, value |-> c.value]) ELSE miss

tryTextCall(c, type) == IF c.ok THEN found([type |-> type, value |-> c.value]) ELSE miss

\* the pieces of the regular expressions of the function forms: a position
\* in the text, or no match
NoRead == [ok |-> FALSE, rest |-> <<>>]
atText(rest) == [ok |-> TRUE, rest |-> rest]
\* the keyword at the start of content and \s*\(
readOpen(content, keyword) ==
    LET a == skipWs(slice(content, Len(keyword))) IN
    IF startsWith(content, keyword) /\ a # <<>> /\ a[1] = "(" THEN atText(Tail(a)) ELSE NoRead
\* \s*(?:text\(\)|\.) , the subject left out when `optional`
readDot(r, optional) ==
    LET b == skipWs(r.rest) IN
    IF ~r.ok THEN NoRead
    ELSE IF startsWith(b, kText) THEN atText(slice(b, 6))
    ELSE IF startsWith(b, <<".">>) THEN atText(slice(b, 1))
    ELSE IF optional THEN atText(b) ELSE NoRead
\* \s*\)
readClose(r) ==
    IF r.ok /\ closeParen(skipWs(r.rest)) THEN atText(Tail(skipWs(r.rest))) ELSE NoRead
\* \s*,\s*(\d+)
readCommaNumber(r) ==
    LET c == skipWs(r.rest)
        d == IF c # <<>> THEN skipWs(Tail(c)) ELSE <<>>
    IN  IF r.ok /\ c # <<>> /\ c[1] = "," /\ span(d, Digits) > 0
        THEN [ok |-> TRUE, value |-> parseInt(SubSeq(d, 1, span(d, Digits))),
              rest |-> slice(d, span(d, Digits))]
        ELSE [ok |-> FALSE, value |-> 0, rest |-> <<>>]
\* \s*,\s*'value'
readCommaQuoted(r) ==
    IF r.ok THEN readValue(r.rest) ELSE [ok |-> FALSE, value |-> <<>>, rest |-> <<>>]
\* \s*=\s*'value'
readEqualsQuoted(r) ==
    IF r.ok THEN readOpQuoted(r.rest, <<"=">>) ELSE [ok |-> FALSE, value |-> <<>>, rest |-> <<>>]
\* \s*(<|>|<=|>=|=)\s*(\d+)
countOps == posOps \o << <<"=">> >>
readCompareNumber(r) ==
    IF r.ok THEN readCompare(r.rest, countOps) ELSE [ok |-> FALSE, operator |-> <<>>, value |-> 0]

kNormalizeSpace == <<"n","o","r","m","a","l","i","z","e","-","s","p","a","c","e">>
kCount == <<"c","o","u","n","t">>
kStringLength == <<"s","t","r","i","n","g","-","l","e","n","g","t","h">>
kSubstring == <<"s","u","b","s","t","r","i","n","g">>
kSubstringBefore == kSubstring \o <<"-","b","e","f","o","r","e">>
kSubstringAfter == kSubstring \o <<"-","a","f","t","e","r">>

\* ^normalize-space\s*\((?:\.)?\)\s*=\s*'value'
readNormalizeSpace(o) ==
    LET b == IF o.ok /\ startsWith(o.rest, <<".">>) THEN atText(Tail(o.rest)) ELSE o IN
    IF b.ok /\ closeParen(b.rest) THEN readEqualsQuoted(atText(Tail(b.rest)))
    ELSE readEqualsQuoted(NoRead)
tryNormalizeSpace(q) ==
    IF q.ok THEN found([type |-> "normalize-space-equals", value |-> q.value]) ELSE miss

\* ^count\s*\(\s*([\w-]+)\s*\)\s*(<|>|<=|>=|=)\s*(\d+)
readCountTag(o) ==
    LET b == skipWs(o.rest) IN
    IF o.ok /\ span(b, WordChars) > 0
    THEN [ok |-> TRUE, tagName |-> SubSeq(b, 1, span(b, WordChars)),
          rest |-> slice(b, span(b, WordChars))]
    ELSE [ok |-> FALSE, tagName |-> <<>>, rest |-> <<>>]
tryCountCompare(tag, pc) ==
    IF pc.ok
    THEN found([type |-> "count-compare", tagName |-> tag.tagName,
                operator |-> pc.operator, value |-> pc.value])
    ELSE miss
tryCount(tag) == tryCountCompare(tag, readCompareNumber(readClose(tag)))

\* ^string-length\s*\(\s*(?:text\(\)|\.|\s*)\s*\)\s*(<|>|<=|>=|=)\s*(\d+)
tryStringLength(pc) ==
    IF pc.ok
    THEN found([type |-> "string-length-compare", operator |-> pc.operator, value |-> pc.value])
    ELSE miss

\* ^substring\s*\(\s*(?:text\(\)|\.)\s*,\s*(\d+)(?:\s*,\s*(\d+))?\s*\)\s*=\s*'value'
trySubstringWith(start, length, q) ==
    IF q.ok
    THEN found([type |-> "substring-equals", start |-> start.value,
                length |-> IF length.ok THEN [null |-> FALSE, value |-> length.value]
                           ELSE Null,
                value |-> q.value])
    ELSE miss
trySubstringFrom(start, length) ==
    trySubstringWith(start, length,
                     readEqualsQuoted(readClose(IF length.ok THEN length ELSE start)))
trySubstring(start) == trySubstringFrom(start, readCommaNumber(start))

\* ^substring-before\s*\(\s*(?:text\(\)|\.)\s*,\s*'delimiter'\s*\)\s*=\s*'value'
\* and the same for substring-after
trySubstringSide(type, delimiter, q) ==
    IF q.ok THEN found([type |-> type, delimiter |-> delimiter.value, value |-> q.value])
    ELSE miss
trySubstringAround(type, delimiter) ==
    trySubstringSide(type, delimiter, readEqualsQuoted(readClose(delimiter)))

\* ^translate\s*\(\s*(?:text\(\)|\.)\s*,\s*'from'\s*,\s*'to'\s*\)\s*=\s*'value'
kTranslate == <<"t","r","a","n","s","l","a","t","e">>
readTranslateValue(from, to, e) ==
    IF from.ok /\ to.ok /\ closeParen(e)
    THEN readOpQuoted(Tail(e), <<"=">>) ELSE [ok |-> FALSE, value |-> <<>>, rest |-> e]
readTranslateTo(from, to) ==
    [from |-> from.value, to |-> to.value,
     value |-> readTranslateValue(from, to, skipWs(to.rest))]
readTranslateFrom(from) == readTranslateTo(from, readValue(from.rest))
readTranslate(content) ==
    readTranslateFrom(readValue(readSubject(openParen(skipWs(slice(content, 9))), FALSE).rest))
tryTranslate(content, t) ==
    IF startsWith(content, kTranslate) /\ t.value.ok
    THEN found([type |-> "translate-equals", from |-> t.from, to |-> t.to,
                value |-> t.value.value])
    ELSE miss

tryChild(content) ==
    IF content # <<>> /\ span(content, WordChars) = Len(content)
    THEN found([type |-> "has-child", tagName |-> content])
    ELSE miss

\* parsePredicateContent after `content = content.trim()`: the blocks in the
\* order of the code
parseTrimmedContent(content) ==
    firstHit(
        << tryPosition(content),
           tryOperator(splitByOperator(content, kOr), "or"),
           tryOperator(splitByOperator(content, kAnd), "and"),
           tryNot(notInner(content)) >>
        \o tryAttrBlocks(readAttrName(content))
        \o << tryTextCompare(content, readOpQuoted(slice(content, 6), <<"=">>), "text-equals"),
              tryTextCompare(content, readOpQuoted(slice(content, 6), <<"!", "=">>),
                             "text-not-equals"),
              tryNormalizeSpace(readNormalizeSpace(readOpen(content, kNormalizeSpace))),
              tryLast(content),
              tryPositionCompare(content, readCompare(slice(content, 10), posOps)),
              tryCount(readCountTag(readOpen(content, kCount))),
              tryStringLength(readCompareNumber(readClose(
                  readDot(readOpen(content, kStringLength), TRUE)))),
              trySubstring(readCommaNumber(readDot(readOpen(content, kSubstring), FALSE))),
              trySubstringAround("substring-before-equals",
                  readCommaQuoted(readDot(readOpen(content, kSubstringBefore), FALSE))),
              trySubstringAround("substring-after-equals",
                  readCommaQuoted(readDot(readOpen(content, kSubstringAfter), FALSE))),
              tryTranslate(content, readTranslate(content)),
              tryAttrCall(readCall(content, kContains, TRUE), "attr-contains"),
              tryTextCall(readCall(content, kContains, FALSE), "text-contains"),
              tryAttrCall(readCall(content, kStartsWith, TRUE), "attr-starts-with"),
              tryTextCall(readCall(content, kStartsWith, FALSE), "text-starts-with"),
              tryAttrCall(readCall(content, kEndsWith, TRUE), "attr-ends-with"),
              tryTextCall(readCall(content, kEndsWith, FALSE), "text-ends-with"),
              tryChild(content) >>)

parsePredicateContent(raw) == parseTrimmedContent(trim(raw))

parseSinglePredicateAt(expr, closeIdx) ==
    IF closeIdx = -1 THEN [predicate |-> NoPred, rest |-> expr]
    ELSE [predicate |-> parsePredicateContent(trim(slice2(expr, 1, closeIdx))),
          rest |-> slice(expr, closeIdx + 1)]

parseSinglePredicate(expr) ==
    IF ~startsWith(expr, <<"[">>) THEN [predicate |-> NoPred, rest |-> expr]
    ELSE parseSinglePredicateAt(expr, findMatchingBracket(expr))

\* one iteration of the loop of parsePredicates, parseSinglePredicate having
\* returned r
parsePredicatesIterWith(st, r) ==
    [predicates |-> IF r.predicate.type # "none"
                    THEN Append(st.predicates, r.predicate) ELSE st.predicates,
     remaining |-> r.rest,
     stop |-> r.rest = st.remaining]

\* the loop body leaving the loop at a bracket that gave no predicate
parsePredicatesIterStrict(st) ==
    [parsePredicatesIterWith(st, parseSinglePredicate(st.remaining))
        EXCEPT !.stop = @ \/ parseSinglePredicate(st.remaining).predicate.type = "none"]
parsePredicatesIter(st) == parsePredicatesIterWith(st, parseSinglePredicate(st.remaining))

RECURSIVE parsePredicatesLoop(_)
RECURSIVE parsePredicatesNext(_, _)
parsePredicatesNext(st, n) ==
    IF n.stop THEN [predicates |-> n.predicates, rest |-> st.remaining]
    ELSE parsePredicatesLoop([predicates |-> n.predicates, remaining |-> n.remaining])

parsePredicatesLoop(st) ==
    IF ~startsWith(st.remaining, <<"[">>)
    THEN [predicates |-> st.predicates, rest |-> st.remaining]
    ELSE parsePredicatesNext(st, parsePredicatesIter(st))

parsePredicates(expr) == parsePredicatesLoop([predicates |-> <<>>, remaining |-> expr])

axisKeywords == <<kFollowingSibling, kPrecedingSibling, kFollowing, kPreceding,
                  kAncestor, kParent, kSelf>>
axisNames == <<"following-sibling", "preceding-sibling", "following", "preceding",
               "ancestor", "parent", "self">>

\* parseStep up to the call of parsePredicates: `preds` tells whether the
\* step goes on to read predicates from `rest`
stepDone(step, rest) == [preds |-> FALSE, step |-> step, rest |-> rest]
stepMore(step, rest) == [preds |-> TRUE, step |-> step, rest |-> rest]

\* the leading // / .// ./ : the default axis and the characters consumed
leadOf(expr) ==
    IF startsWith(expr, <<"/", "/">>) THEN <<"descendant", 2>>
    ELSE IF startsWith(expr, <<"/">>) THEN <<"child", 1>>
    ELSE IF startsWith(expr, <<".", "/", "/">>) THEN <<"descendant", 3>>
    ELSE IF startsWith(expr, <<".", "/">>) THEN <<"child", 2>>
    ELSE <<"child", 0>>

\* @name, text(), node(), * or a name
parseNodeTest(axis, r2) ==
    LET at == readAttrName(r2)
        nameLen == span(r2, WordChars)
    IN
    IF at.ok THEN stepDone(mkStep("attribute", "name", at.name, <<>>), at.rest)
    ELSE IF startsWith(r2, kText) THEN stepMore(mkStep(axis, "text", <<>>, <<>>), slice(r2, 6))
    ELSE IF startsWith(r2, kNode) THEN stepMore(mkStep(axis, "node", <<>>, <<>>), slice(r2, 6))
    ELSE IF startsWith(r2, <<"*">>) THEN stepMore(mkStep(axis, "any", <<>>, <<>>), slice(r2, 1))
    ELSE IF nameLen > 0
    THEN stepMore(mkStep(axis, "name", SubSeq(r2, 1, nameLen), <<>>), slice(r2, nameLen))
    ELSE stepDone(NoStep, r2)

\* the explicit axis `name::`
parseAxis(axis, r1) ==
    LET axHit == {i \in 1..Len(axisKeywords) : startsWith(r1, axisKeywords[i] \o kColons)} IN
    IF axHit = {} THEN parseNodeTest(axis, r1)
    ELSE parseNodeTest(axisNames[Min(axHit)], slice(r1, Len(axisKeywords[Min(axHit)]) + 2))

parseStepLead(expr, lead) ==
    IF lead[2] = 0 /\ startsWith(expr, <<".", ".">>)
    THEN stepDone(mkStep("parent", "node", <<>>, <<>>), slice(expr, 2))
    ELSE IF lead[2] = 0 /\ startsWith(expr, <<".">>)
    THEN stepDone(mkStep("self", "node", <<>>, <<>>), slice(expr, 1))
    ELSE parseAxis(lead[1], slice(expr, lead[2]))

parseStepHead(expr) == parseStepLead(expr, leadOf(expr))

withPredicates(step, pp) ==
    [step |-> [step EXCEPT !.predicates = pp.predicates], rest |-> pp.rest]

parseStepFrom(h) ==
    IF h.preds THEN withPredicates(h.step, parsePredicates(h.rest))
    ELSE [step |-> h.step, rest |-> h.rest]

parseStep(expr) == parseStepFrom(parseStepHead(expr))

\* if (step) steps.push(step)
pushStep(steps, step) == IF step.axis # "none" THEN Append(steps, step) ELSE steps

\* the loop of parseXPath
RECURSIVE parseXPathLoop(_, _)
RECURSIVE parseXPathNext(_, _, _)
parseXPathNext(steps, rem, r) ==
    IF r.rest = rem THEN pushStep(steps, r.step)
    ELSE parseXPathLoop(pushStep(steps, r.step), r.rest)

parseXPathLoop(steps, rem) ==
    IF Len(rem) = 0 THEN steps ELSE parseXPathNext(steps, rem, parseStep(rem))

parseXPath(expr) == parseXPathLoop(<<>>, trim(expr))

(***************************************************************************)
(* The document tree (the DOM the tree provider hands to the Selector)     *)
(***************************************************************************)
DOCUMENT_NODE == 9
ELEMENT_NODE == 1
TEXT_NODE == 3

\* <a><a><p h="u">x</p></a><p> y</p></a>
Doc1 ==
    [type  |-> <<1, 1, 1, 3, 1, 3>>,
     tag   |-> << <<"A">>, <<"A">>, <<"P">>, <<>>, <<"P">>, <<>> >>,
     attrs |-> << <<>>, <<>>, << <<"h">>, <<"u">> >>, <<>>, <<>>, <<>> >>,
     data  |-> << <<>>, <<>>, <<>>, <<"x">>, <<>>, <<" ", "y">> >>,
     kids  |-> << <<2, 5>>, <<3>>, <<4>>, <<>>, <<6>>, <<>> >>,
     top   |-> <<1>>]

\* <b><a>1</a><a h=""></a><p> </p></b><b><a></a><p>y</p><a h="u"></a></b>
Doc2 ==
    [type  |-> <<1, 1, 1, 1, 1, 1, 1, 1, 3, 3, 3>>,
     tag   |-> << <<"B">>, <<"A">>, <<"A">>, <<"P">>, <<"B">>, <<"A">>, <<"P">>, <<"A">>,
                  <<>>, <<>>, <<>> >>,
     attrs |-> << <<>>, <<>>, << <<"h">>, <<>> >>, <<>>, <<>>, <<>>, <<>>,
                  << <<"h">>, <<"u">> >>, <<>>, <<>>, <<>> >>,
     data  |-> << <<>>, <<>>, <<>>, <<>>, <<>>, <<>>, <<>>, <<>>,
                  <<"1">>, <<" ">>, <<"y">> >>,
     kids  |-> << <<2, 3, 4>>, <<9>>, <<>>, <<10>>, <<6, 7, 8>>, <<>>, <<11>>, <<>>,
                  <<>>, <<>>, <<>> >>,
     top   |-> <<1, 5>>]

\* <b><a><p>ab</p></a></b>
Doc3 ==
    [type  |-> <<1, 1, 1, 3>>,
     tag   |-> << <<"B">>, <<"A">>, <<"P">>, <<>> >>,
     attrs |-> << <<>>, <<>>, <<>>, <<>> >>,
     data  |-> << <<>>, <<>>, <<>>, <<"a", "b">> >>,
     kids  |-> << <<2>>, <<3>>, <<4>>, <<>> >>,
     top   |-> <<1>>]

Docs == <<Doc1, Doc2, Doc3>>

Doc == Docs[docId]
Nodes == 0..Len(Doc.type)
nodeType(n) == IF n = 0 THEN DOCUMENT_NODE ELSE Doc.type[n]
tagName(n) == Doc.tag[n]
nodeData(n) == Doc.data[n]

\* Element.getAttribute: the value, or Null
getAttribute(n, name) ==
    LET as == Doc.attrs[n]
        hit == {i \in 1..(Len(as) \div 2) : as[2 * i - 1] = name}
    IN  IF hit = {} THEN Null ELSE [null |-> FALSE, value |-> as[2 * Min(hit)]]

hasAttribute(n, name) == ~getAttribute(n, name).null

toLowerCase(s) ==
    [i \in 1..Len(s) |->
        CASE s[i] = "A" -> "a" [] s[i] = "B" -> "b" [] s[i] = "P" -> "p"
          [] OTHER -> s[i]]

\* the state of the tree right after parsing document d
InitParent(d) ==
    [n \in 0..Len(Docs[d].type) |->
        IF n = 0 THEN NoNode
        ELSE IF \E m \in 1..Len(Docs[d].type) : n \in Range(Docs[d].kids[m])
        THEN CHOOSE m \in 1..Len(Docs[d].type) : n \in Range(Docs[d].kids[m])
        ELSE 0]
InitChildren(d) ==
    [n \in 0..Len(Docs[d].type) |-> IF n = 0 THEN Docs[d].top ELSE Docs[d].kids[n]]

\* Node.contains: other is node or one of its descendants
RECURSIVE contains(_, _)
contains(node, other) ==
    IF other = NoNode THEN FALSE
    ELSE IF other = node THEN TRUE
    ELSE contains(node, parentNode[other])

\* Node.textContent of an element or text node: the text of the subtree
RECURSIVE textContent(_)
textContent(n) ==
    IF nodeType(n) = TEXT_NODE THEN nodeData(n)
    ELSE Flatten([i \in 1..Len(childNodes[n]) |-> textContent(childNodes[n][i])])

\* node.textContent?.trim() ?? "" : the Document's textContent is null
trimmedText(n) == IF nodeType(n) = DOCUMENT_NODE THEN <<>> ELSE trim(textContent(n))

\* Element.outerHTML / serialisation of a text node
RECURSIVE serialize(_)
serialize(n) ==
    IF nodeType(n) = TEXT_NODE THEN nodeData(n)
    ELSE LET as == Doc.attrs[n]
             attrText == Flatten([i \in 1..(Len(as) \div 2) |->
                             <<" ">> \o as[2 * i - 1] \o <<"=", "\"">> \o as[2 * i] \o <<"\"">>])
             name == toLowerCase(tagName(n))
         IN  <<"<">> \o name \o attrText \o <<">">>
             \o Flatten([i \in 1..Len(childNodes[n]) |-> serialize(childNodes[n][i])])
             \o <<"<", "/">> \o name \o <<">">>

outerHTML(n) == serialize(n)

\* getDescendants: strict descendants in document order
RECURSIVE getDescendants(_)
getDescendants(node) ==
    Flatten([i \in 1..Len(childNodes[node]) |->
                <<childNodes[node][i]>> \o getDescendants(childNodes[node][i])])

\* the native matcher, for type selectors and the universal selector; any
\* other query is one it rejects with a SyntaxError
validCSS(q) ==
    \/ q = <<"*">>
    \/ q # <<>> /\ span(q, WordChars) = Len(q) /\ q[1] \notin Digits

querySelectorAll(parent, q) ==
    SelectSeq(getDescendants(parent),
              LAMBDA n : /\ nodeType(n) = ELEMENT_NODE
                         /\ (q = <<"*">> \/ toLowerCase(tagName(n)) = toLowerCase(q)))

detachKeepParent(tree, node) ==
    LET par == tree[1][node] IN
    IF par = NoNode THEN tree
    ELSE << tree[1],
            [tree[2] EXCEPT ![par] = SelectSeq(tree[2][par], LAMBDA c : c # node)] >>
\* a removal that also empties the removed node
detachDroppingChildren(tree, node) ==
    LET par == tree[1][node] IN
    IF par = NoNode THEN tree
    ELSE << [tree[1] EXCEPT ![node] = NoNode],
            [tree[2] EXCEPT ![par] = SelectSeq(tree[2][par], LAMBDA c : c # node),
                            ![node] = <<>>] >>
\* Element.remove() / parentNode.removeChild(node) on tree <<parent, children>>
detach(tree, node) ==
    LET par == tree[1][node] IN
    IF par = NoNode THEN tree
    ELSE << [tree[1] EXCEPT ![node] = NoNode],
            [tree[2] EXCEPT ![par] = SelectSeq(tree[2][par], LAMBDA c : c # node)] >>

(***************************************************************************)
(* Axis / predicate evaluator (xpath.ts)                                   *)
(***************************************************************************)
\* an XPathResult: a Node or a string
Nd(n) == [t |-> "n", n |-> n, s |-> <<>>]
St(v) == [t |-> "s", n |-> NoNode, s |-> v]

\* the ancestor loop stopping below the Document
RECURSIVE ancestorElementsOf(_)
ancestorElementsOf(n) ==
    IF parentNode[n] = NoNode \/ nodeType(parentNode[n]) = DOCUMENT_NODE THEN <<>>
    ELSE <<parentNode[n]>> \o ancestorElementsOf(parentNode[n])
RECURSIVE ancestorsOf(_)
ancestorsOf(n) ==
    IF parentNode[n] = NoNode THEN <<>>
    ELSE <<parentNode[n]>> \o ancestorsOf(parentNode[n])

Reverse(s) == [i \in 1..Len(s) |-> s[Len(s) + 1 - i]]

siblingsOf(n) == IF parentNode[n] = NoNode THEN <<n>> ELSE childNodes[parentNode[n]]

\* the closure `walk` of the following axis; st = [found, results]
RECURSIVE walkFollowing(_, _, _, _)
walkFollowing(node, i, context, st) ==
    IF i > Len(childNodes[node]) THEN st
    ELSE LET child == childNodes[node][i]
             st2 == IF st.found
                    THEN [st EXCEPT !.results = @ \o <<child>> \o getDescendants(child)]
                    ELSE IF child = context THEN [st EXCEPT !.found = TRUE]
                    ELSE IF contains(child, context)
                    THEN walkFollowing(child, 1, context, st)
                    ELSE st
         IN  walkFollowing(node, i + 1, context, st2)

\* the closure `walk` of the preceding axis; st = [found, results], where
\* found is the value walk returns
RECURSIVE walkPreceding(_, _, _, _)
RECURSIVE walkPrecedingAfter(_, _, _, _)
\* if (walk(child)) return true
walkPrecedingAfter(node, i, context, sub) ==
    IF sub.found THEN sub ELSE walkPreceding(node, i + 1, context, sub)

walkPreceding(node, i, context, st) ==
    IF i > Len(childNodes[node]) THEN [st EXCEPT !.found = FALSE]
    ELSE LET child == childNodes[node][i] IN
         IF child = context THEN [st EXCEPT !.found = TRUE]
         ELSE IF contains(child, context)
         THEN walkPrecedingAfter(node, i, context, walkPreceding(child, 1, context, st))
         ELSE walkPreceding(node, i + 1, context,
                            [st EXCEPT !.results = @ \o <<child>> \o getDescendants(child)])

\* context.ownerDocument || context
ownerRoot(context) == IF nodeType(context) = DOCUMENT_NODE THEN context ELSE 0

getCandidates(axis, context) ==
    CASE axis = "child" -> childNodes[context]
      [] axis = "descendant" -> getDescendants(context)
      [] axis = "self" -> <<context>>
      [] axis = "parent" ->
            IF parentNode[context] # NoNode THEN <<parentNode[context]>> ELSE <<>>
      [] axis = "attribute" ->
            IF nodeType(context) = ELEMENT_NODE THEN <<context>> ELSE <<>>
      [] axis = "ancestor" -> ancestorsOf(context)
      [] axis = "following-sibling" ->
            LET sib == siblingsOf(context) IN slice(sib, indexOf(sib, context) + 1)
      [] axis = "preceding-sibling" ->
            LET sib == siblingsOf(context) IN Reverse(slice2(sib, 0, indexOf(sib, context)))
      [] axis = "following" ->
            walkFollowing(ownerRoot(context), 1, context,
                          [found |-> FALSE, results |-> <<>>]).results
      [] axis = "preceding" ->
            walkPreceding(ownerRoot(context), 1, context,
                          [found |-> FALSE, results |-> <<>>]).results

filterByNodeTest(nodes, test) ==
    CASE test.type = "any" -> SelectSeq(nodes, LAMBDA n : nodeType(n) = ELEMENT_NODE)
      [] test.type = "name" ->
            SelectSeq(nodes, LAMBDA n : /\ nodeType(n) = ELEMENT_NODE
                                        /\ toLowerCase(tagName(n)) = toLowerCase(test.name))
      [] test.type = "text" -> SelectSeq(nodes, LAMBDA n : nodeType(n) = TEXT_NODE)
      [] test.type = "node" -> nodes

getNodeText(node) == trimmedText(node)

compareNumbers(left, operator, right) ==
    CASE operator = <<"<">> -> left < right
      [] operator = <<">">> -> left > right
      [] operator = <<"<", "=">> -> left <= right
      [] operator = <<">", "=">> -> left >= right
      [] operator = <<"=">> -> left = right

\* String.prototype.includes
includes(s, v) == \E i \in 0..(Len(s) - Len(v)) : startsWith(slice(s, i), v)

\* getAttribute(name) ?? ""
attrOrEmpty(node, name) ==
    LET a == getAttribute(node, name) IN IF a.null THEN <<>> ELSE a.value

\* text.replace(/\s+/g, " ").trim()
normalizeSpace(text) ==
    trim(Flatten([i \in 1..Len(text) |->
        IF text[i] \notin Space THEN <<text[i]>>
        ELSE IF i > 1 /\ text[i - 1] \in Space THEN <<>> ELSE <<" ">>]))

\* String.prototype.slice with its clamping of the two indices
sliceIndex(len, i) == IF i < 0 THEN (IF len + i < 0 THEN 0 ELSE len + i)
                      ELSE IF i > len THEN len ELSE i
sliceBetween(text, from, to) ==
    IF sliceIndex(Len(text), from) >= sliceIndex(Len(text), to) THEN <<>>
    ELSE SubSeq(text, sliceIndex(Len(text), from) + 1, sliceIndex(Len(text), to))
\* the substring-equals case: start is pred.start - 1
substringOf(text, start, length) ==
    IF length.null THEN sliceBetween(text, start, Len(text))
    ELSE sliceBetween(text, start, start + length.value)
\* String.prototype.indexOf
indexOfText(text, d) ==
    IF includes(text, d)
    THEN Min({i \in 0..(Len(text) - Len(d)) : startsWith(slice(text, i), d)})
    ELSE -1
substringBefore(text, idx) == IF idx = -1 THEN <<>> ELSE slice2(text, 0, idx)
substringAfter(text, idx, d) == IF idx = -1 THEN <<>> ELSE slice(text, idx + Len(d))

\* result.split(c).join(replacement), c one character
replaceAll(text, c, replacement) ==
    Flatten([i \in 1..Len(text) |-> IF text[i] = c THEN replacement ELSE <<text[i]>>])

\* the loop of the translate-equals case
RECURSIVE translateLoop(_, _, _, _)
translateLoop(result, from, to, i) ==
    IF i >= Len(from) THEN result
    ELSE translateLoop(replaceAll(result, from[i + 1],
                                  IF i < Len(to) THEN <<to[i + 1]>> ELSE <<>>),
                       from, to, i + 1)
translate(text, from, to) == translateLoop(text, from, to, 0)

positionZeroBased(allNodes, node) == indexOf(allNodes, node)
\* allNodes.indexOf(node) + 1: the 1-based position of node in the list
positionOf(allNodes, node) == indexOf(allNodes, node) + 1

RECURSIVE evaluatePredicate(_, _, _)
evaluatePredicate(node, pred, allNodes) ==
    CASE pred.type = "position" -> positionOf(allNodes, node) - 1 = pred.index - 1
      [] pred.type = "attr-exists" ->
            nodeType(node) = ELEMENT_NODE /\ hasAttribute(node, pred.name)
      [] pred.type = "attr-equals" ->
            /\ nodeType(node) = ELEMENT_NODE
            /\ ~getAttribute(node, pred.name).null
            /\ getAttribute(node, pred.name).value = pred.value
      [] pred.type = "text-equals" -> getNodeText(node) = pred.value
      [] pred.type = "text-contains" -> includes(getNodeText(node), pred.value)
      [] pred.type = "attr-contains" ->
            nodeType(node) = ELEMENT_NODE /\ includes(attrOrEmpty(node, pred.name), pred.value)
      [] pred.type = "attr-starts-with" ->
            nodeType(node) = ELEMENT_NODE /\ startsWith(attrOrEmpty(node, pred.name), pred.value)
      [] pred.type = "attr-ends-with" ->
            nodeType(node) = ELEMENT_NODE /\ endsWith(attrOrEmpty(node, pred.name), pred.value)
      [] pred.type = "text-starts-with" -> startsWith(getNodeText(node), pred.value)
      [] pred.type = "text-ends-with" -> endsWith(getNodeText(node), pred.value)
      [] pred.type = "has-child" ->
            /\ nodeType(node) = ELEMENT_NODE
            /\ validCSS(pred.tagName)
            /\ querySelectorAll(node, pred.tagName) # <<>>
      [] pred.type = "not" -> ~evaluatePredicate(node, pred.inner, allNodes)
      [] pred.type = "and" ->
            /\ evaluatePredicate(node, pred.left, allNodes)
            /\ evaluatePredicate(node, pred.right, allNodes)
      [] pred.type = "or" ->
            \/ evaluatePredicate(node, pred.left, allNodes)
            \/ evaluatePredicate(node, pred.right, allNodes)
      [] pred.type = "attr-not-equals" ->
            /\ nodeType(node) = ELEMENT_NODE
            /\ (getAttribute(node, pred.name).null
                \/ getAttribute(node, pred.name).value # pred.value)
      [] pred.type = "text-not-equals" -> getNodeText(node) # pred.value
      [] pred.type = "last" -> positionOf(allNodes, node) - 1 = Len(allNodes) - 1
      [] pred.type = "position-compare" ->
            compareNumbers(positionOf(allNodes, node), pred.operator, pred.value)
      [] pred.type = "normalize-space-equals" ->
            normalizeSpace(getNodeText(node)) = pred.value
      [] pred.type = "count-compare" ->
            /\ nodeType(node) = ELEMENT_NODE
            /\ validCSS(pred.tagName)
            /\ compareNumbers(Len(querySelectorAll(node, pred.tagName)),
                              pred.operator, pred.value)
      [] pred.type = "string-length-compare" ->
            compareNumbers(Len(getNodeText(node)), pred.operator, pred.value)
      [] pred.type = "substring-equals" ->
            substringOf(getNodeText(node), pred.start - 1, pred.length) = pred.value
      [] pred.type = "substring-before-equals" ->
            substringBefore(getNodeText(node),
                            indexOfText(getNodeText(node), pred.delimiter)) = pred.value
      [] pred.type = "substring-after-equals" ->
            substringAfter(getNodeText(node), indexOfText(getNodeText(node), pred.delimiter),
                           pred.delimiter) = pred.value
      [] pred.type = "translate-equals" ->
            translate(getNodeText(node), pred.from, pred.to) = pred.value

\* every bracket of the step judged against the matches of the node test
applyPredicatesFullSet(nodes, predicates) ==
    SelectSeq(nodes, LAMBDA node :
        \A i \in 1..Len(predicates) : evaluatePredicate(node, predicates[i], nodes))

RECURSIVE applyPredicatesFrom(_, _, _)
applyPredicatesFrom(result, predicates, i) ==
    IF i > Len(predicates) THEN result
    ELSE applyPredicatesFrom(
            SelectSeq(result, LAMBDA node : evaluatePredicate(node, predicates[i], result)),
            predicates, i + 1)

applyPredicates(nodes, predicates) == applyPredicatesFrom(nodes, predicates, 1)

\* Node[] as XPathResult[]
asResults(nodes) == [i \in 1..Len(nodes) |-> Nd(nodes[i])]

\* the body of the loop of evaluateStep for one context
evaluateStepOne(step, context) ==
    IF context.t = "s" THEN <<>>
    ELSE IF step.axis = "attribute" /\ step.nodeTest.type = "name"
    THEN (IF nodeType(context.n) = ELEMENT_NODE
             /\ ~getAttribute(context.n, step.nodeTest.name).null
          THEN <<St(getAttribute(context.n, step.nodeTest.name).value)>>
          ELSE <<>>)
    ELSE asResults(applyPredicates(
             filterByNodeTest(getCandidates(step.axis, context.n), step.nodeTest),
             step.predicates))

\* the predicates applied once to the matches of all contexts together
evaluateStepGlobal(step, contexts) ==
    IF step.axis = "attribute" /\ step.nodeTest.type = "name"
    THEN Flatten([i \in 1..Len(contexts) |-> evaluateStepOne(step, contexts[i])])
    ELSE asResults(applyPredicates(
             Flatten([i \in 1..Len(contexts) |->
                 IF contexts[i].t = "s" THEN <<>>
                 ELSE filterByNodeTest(getCandidates(step.axis, contexts[i].n), step.nodeTest)]),
             step.predicates))

evaluateStep(step, contexts) ==
    Flatten([i \in 1..Len(contexts) |-> evaluateStepOne(step, contexts[i])])

RECURSIVE evaluateSteps(_, _, _)
evaluateSteps(steps, i, results) ==
    IF i > Len(steps) THEN results
    ELSE evaluateSteps(steps, i + 1, evaluateStep(steps[i], results))

evaluateSingleXPath(expr, contexts) ==
    evaluateSteps(parseXPath(expr), 1, asResults(contexts))

\* splitUnion: split on | at bracket/quote depth 0
RECURSIVE splitUnionFrom(_, _, _, _, _, _)
splitUnionFrom(expr, i, parts, current, depth, inString) ==
    IF i >= Len(expr)
    THEN (IF trim(current) # <<>> THEN Append(parts, trim(current)) ELSE parts)
    ELSE LET char == expr[i + 1] IN
         IF inString # ""
         THEN splitUnionFrom(expr, i + 1, parts, Append(current, char), depth,
                             IF char = inString THEN "" ELSE inString)
         ELSE IF char = "\"" \/ char = "'"
         THEN splitUnionFrom(expr, i + 1, parts, Append(current, char), depth, char)
         ELSE IF char = "(" \/ char = "["
         THEN splitUnionFrom(expr, i + 1, parts, Append(current, char), depth + 1, inString)
         ELSE IF char = ")" \/ char = "]"
         THEN splitUnionFrom(expr, i + 1, parts, Append(current, char), depth - 1, inString)
         ELSE IF depth = 0 /\ char = "|"
         THEN splitUnionFrom(expr, i + 1, Append(parts, trim(current)), <<>>, depth, inString)
         ELSE splitUnionFrom(expr, i + 1, parts, Append(current, char), depth, inString)

splitUnion(expr) == splitUnionFrom(expr, 0, <<>>, <<>>, 0, "")

\* the union loop of evaluateXPath: strings always kept, nodes once
RECURSIVE unionResults(_, _)
unionResults(rs, acc) ==
    IF rs = <<>> THEN acc
    ELSE LET r == Head(rs) IN
         unionResults(Tail(rs),
                      IF r.t = "n" /\ \E j \in 1..Len(acc) : acc[j] = r
                      THEN acc ELSE Append(acc, r))

evaluateXPath(expr, contexts) ==
    IF trim(expr) = <<>> THEN <<>>
    ELSE LET unionParts == splitUnion(expr) IN
         IF Len(unionParts) > 1
         THEN unionResults(
                 Flatten([k \in 1..Len(unionParts) |->
                             evaluateSingleXPath(trim(unionParts[k]), contexts)]),
                 <<>>)
         ELSE evaluateSingleXPath(expr, contexts)

(***************************************************************************)
(* Pseudo-element translator (pseudo.ts)                                   *)
(***************************************************************************)
Some(v) == [null |-> FALSE, value |-> v]

\* the two regular expressions ^(.+?)::text$ and ^(.+?)::attr\(([^)]+)\)$
parsePseudo(query) ==
    LET n == Len(query)
        textPrefix == SubSeq(query, 1, n - 6)
        \* i = length of the lazy prefix (.+?) of the ::attr( form
        attrAt == {i \in 1..(n - 9) :
                      /\ startsWith(slice(query, i), kPseudoAttr)
                      /\ query[n] = ")"
                      /\ ")" \notin Range(SubSeq(query, i + 8, n - 1))
                      /\ "\n" \notin Range(SubSeq(query, 1, i))}
    IN  IF n > 6 /\ endsWith(query, kPseudoText) /\ "\n" \notin Range(textPrefix)
        THEN [query |-> textPrefix, extract |-> "text", attrName |-> <<>>]
        ELSE IF attrAt # {}
        THEN [query |-> SubSeq(query, 1, Min(attrAt)), extract |-> "attr",
              attrName |-> SubSeq(query, Min(attrAt) + 8, n - 1)]
        ELSE [query |-> query, extract |-> "node", attrName |-> <<>>]

parseXPathPseudo(query) == parsePseudo(query)
parseCSSPseudo(query) == parsePseudo(query)

\* extractValue: a string, or Null
extractValue(node, extract, attrName) ==
    IF extract = "text"
    THEN (IF trimmedText(node) = <<>> THEN Null ELSE Some(trimmedText(node)))
    ELSE IF extract = "attr" /\ attrName # <<>>
    THEN (IF nodeType(node) = ELEMENT_NODE THEN getAttribute(node, attrName) ELSE Null)
    ELSE IF nodeType(node) = ELEMENT_NODE THEN Some(outerHTML(node))
    ELSE IF nodeType(node) = DOCUMENT_NODE THEN Null
    ELSE Some(trimmedText(node))

\* nodes.map(extractValue).filter(v => v !== null)
valuesOf(kept) == [i \in 1..Len(kept) |-> kept[i].value]
extractAll(nodes, extract, attrName) ==
    valuesOf(SelectSeq([i \in 1..Len(nodes) |-> extractValue(nodes[i], extract, attrName)],
                       LAMBDA v : ~v.null))

(***************************************************************************)
(* Selector result abstraction (selector.ts)                               *)
(***************************************************************************)
Selector(nodes, selector) ==
    [kind |-> "Selector", nodes |-> nodes, values |-> <<>>, selector |-> selector,
     ok |-> FALSE]
\* super([], ...) leaves #nodes empty
TextSelector(values, selector) ==
    [kind |-> "TextSelector", nodes |-> <<>>, values |-> values, selector |-> selector,
     ok |-> FALSE]

\* pluck(html): the root Selector wraps the Document
pluck == Selector(<<0>>, <<>>)

ok(s) == IF s.kind = "TextSelector" THEN Len(s.values) > 0 ELSE Len(s.nodes) > 0
countNodesOnly(s) == Len(s.nodes)
\* the held nodes that are still in the document
countAttached(s) ==
    IF s.kind = "TextSelector" THEN Len(s.values)
    ELSE Len(SelectSeq(s.nodes, LAMBDA n : nodeType(n) = DOCUMENT_NODE \/ parentNode[n] # NoNode))
count(s) == IF s.kind = "TextSelector" THEN Len(s.values) ELSE Len(s.nodes)

nodeValue(node) ==
    IF nodeType(node) = TEXT_NODE THEN trimmedText(node)
    ELSE IF nodeType(node) = ELEMENT_NODE THEN outerHTML(node)
    ELSE trimmedText(node)

\* getall without the filter on empty values
getallKeepingEmpty(s) ==
    IF s.kind = "TextSelector" THEN s.values
    ELSE [i \in 1..Len(s.nodes) |-> nodeValue(s.nodes[i])]
getall(s) ==
    IF s.kind = "TextSelector" THEN s.values
    ELSE SelectSeq([i \in 1..Len(s.nodes) |-> nodeValue(s.nodes[i])], LAMBDA v : v # <<>>)

\* defaultValue || null
orNullFalsy(defaultValue) ==
    IF defaultValue.null \/ defaultValue.value = <<>> THEN Null ELSE defaultValue
\* defaultValue ?? null
orNull(defaultValue) == IF defaultValue.null THEN Null ELSE defaultValue

\* v ?? ""
orEmpty(v) == IF v.null THEN <<>> ELSE v.value

firstOr(values, defaultValue) ==
    IF Len(values) = 0 THEN orNull(defaultValue) ELSE Some(values[1])
get(s, defaultValue) == firstOr(getall(s), defaultValue)

\* Selector.#evaluateSingleXPath; evaluateXPath raises nothing, so the
\* result is never null
stringResultsOf(xpathResults) ==
    LET strs == SelectSeq(xpathResults, LAMBDA r : r.t = "s") IN
    [i \in 1..Len(strs) |-> strs[i].s]
nodeResultsOf(xpathResults) ==
    LET nds == SelectSeq(xpathResults, LAMBDA r : r.t = "n") IN
    [i \in 1..Len(nds) |-> nds[i].n]

partResultOf(parsed, stringResults, nodeResults) ==
    IF Len(stringResults) > 0
    THEN [type |-> "strings", values |-> stringResults, nodes |-> <<>>]
    ELSE IF parsed.extract = "text" \/ parsed.extract = "attr"
    THEN [type |-> "strings", nodes |-> <<>>,
          values |-> extractAll(nodeResults, parsed.extract, parsed.attrName)]
    ELSE [type |-> "nodes", values |-> <<>>, nodes |-> nodeResults]

sortResults(parsed, xpathResults) ==
    partResultOf(parsed, stringResultsOf(xpathResults), nodeResultsOf(xpathResults))

evaluateParsed(s, parsed) == sortResults(parsed, evaluateXPath(parsed.query, s.nodes))

selEvaluateSingleXPath(s, query) == evaluateParsed(s, parseXPathPseudo(query))

\* splitXPathUnion, imported from xpath.ts
splitXPathUnion(query) == splitUnion(query)

addAll(allNodes, nodes) == allNodes \o nodes
\* for (const node of partResult.nodes) if (!seenNodes.has(node)) ...
RECURSIVE addUnseen(_, _)
addUnseen(allNodes, nodes) ==
    IF nodes = <<>> THEN allNodes
    ELSE addUnseen(IF Head(nodes) \in Range(allNodes) THEN allNodes
                   ELSE Append(allNodes, Head(nodes)),
                   Tail(nodes))

\* the body of the loop over the union parts; acc = [allStrings, allNodes]
unionAdd(acc, partResult) ==
    IF partResult.type = "strings"
    THEN [acc EXCEPT !.allStrings = @ \o partResult.values]
    ELSE [acc EXCEPT !.allNodes = addUnseen(@, partResult.nodes)]

RECURSIVE unionLoop(_, _, _, _)
unionLoop(s, unionParts, i, acc) ==
    IF i > Len(unionParts) THEN acc
    ELSE unionLoop(s, unionParts, i + 1,
                   unionAdd(acc, selEvaluateSingleXPath(s, trim(unionParts[i]))))

\* if (allStrings.length > 0) return new TextSelector(allStrings, ...)
unionSelector(acc, query) ==
    IF Len(acc.allStrings) > 0 THEN TextSelector(acc.allStrings, query)
    ELSE Selector(acc.allNodes, query)

singleSelector(result, query) ==
    IF result.type = "strings" THEN TextSelector(result.values, query)
    ELSE Selector(result.nodes, query)

xpathParts(s, query, unionParts) ==
    IF Len(unionParts) > 1
    THEN unionSelector(unionLoop(s, unionParts, 1, [allStrings |-> <<>>, allNodes |-> <<>>]),
                       query)
    ELSE singleSelector(selEvaluateSingleXPath(s, query), query)

xpath(s, query) == xpathParts(s, query, splitXPathUnion(query))

\* the elements css collects, and whether the matcher rejected the query
cssResults(s, q) ==
    Flatten([i \in 1..Len(s.nodes) |->
                IF nodeType(s.nodes[i]) \in {ELEMENT_NODE, DOCUMENT_NODE} /\ validCSS(q)
                THEN querySelectorAll(s.nodes[i], q) ELSE <<>>])

\* the warn-level records css hands to the logger: one per held element or
\* document whose querySelectorAll throws
cssWarnings(s, query) ==
    SelectSeq([i \in 1..Len(s.nodes) |->
                  IF nodeType(s.nodes[i]) \in {ELEMENT_NODE, DOCUMENT_NODE}
                     /\ ~validCSS(parseCSSPseudo(query).query)
                  THEN [level |-> "warn", message |-> "invalid CSS selector", selector |-> query]
                  ELSE [level |-> "none", message |-> "", selector |-> query]],
              LAMBDA l : l.level = "warn")

cssSelector(parsed, results, query) ==
    IF parsed.extract = "text" \/ parsed.extract = "attr"
    THEN TextSelector(extractAll(results, parsed.extract, parsed.attrName), query)
    ELSE Selector(results, query)
cssParsed(s, parsed, query) == cssSelector(parsed, cssResults(s, parsed.query), query)
css(s, query) == cssParsed(s, parseCSSPseudo(query), query)

or(s, fallback) == IF ok(s) THEN s ELSE fallback

\* one element of the receiver, as first/last/eq/each/toArray/iteration build it
single(s, i) ==
    IF s.kind = "TextSelector" THEN TextSelector(<<s.values[i]>>, s.selector)
    ELSE Selector(<<s.nodes[i]>>, s.selector)
empty(s) ==
    IF s.kind = "TextSelector" THEN TextSelector(<<>>, s.selector)
    ELSE Selector(<<>>, s.selector)

first(s) == IF count(s) = 0 THEN empty(s) ELSE single(s, 1)
last(s) == IF count(s) = 0 THEN empty(s) ELSE single(s, count(s))
\* array[index]: undefined outside 0..length-1
at(array, index) == IF index \in 0..(Len(array) - 1) THEN Some(array[index + 1]) ELSE Null
\* !value
isMissingFalsy(value) == value.null \/ value.value = <<>>
\* value === undefined; for a node, !node says the same
isMissing(value) == value.null
eq(s, index) ==
    IF s.kind = "TextSelector"
    THEN (IF isMissing(at(s.values, index)) THEN TextSelector(<<>>, s.selector)
          ELSE TextSelector(<<at(s.values, index).value>>, s.selector))
    ELSE (IF at(s.nodes, index).null THEN Selector(<<>>, s.selector)
          ELSE Selector(<<at(s.nodes, index).value>>, s.selector))
toArray(s) == [i \in 1..count(s) |-> single(s, i)]

\* the loop of remove without its else branch: only elements are detached
RECURSIVE removeElementsFrom(_, _, _)
removeElementsFrom(tree, nodes, i) ==
    IF i > Len(nodes) THEN tree
    ELSE removeElementsFrom(IF nodeType(nodes[i]) = ELEMENT_NODE THEN detach(tree, nodes[i])
                            ELSE tree,
                            nodes, i + 1)
\* Selector.remove on the tree <<parentNode, childNodes>>
RECURSIVE removeFrom(_, _, _)
removeFrom(tree, nodes, i) ==
    IF i > Len(nodes) THEN tree
    ELSE removeFrom(detach(tree, nodes[i]), nodes, i + 1)

removeFirstOnly(s) == removeFrom(<<parentNode, childNodes>>, SubSeq(s.nodes, 1, 1), 1)
remove(s) == removeFrom(<<parentNode, childNodes>>, s.nodes, 1)

\* a field a record does not carry is Null
\* result() with count taken from the values get() chooses from
resultCountingValues(s) ==
    IF ok(s)
    THEN [ok |-> TRUE, value |-> Some(orEmpty(get(s, Null))),
          count |-> Some(Len(getall(s))), selector |-> Null]
    ELSE [ok |-> FALSE, value |-> Null, count |-> Null, selector |-> Some(s.selector)]
\* Selector.result, inherited by TextSelector
result(s) ==
    IF ok(s)
    THEN [ok |-> TRUE, value |-> Some(orEmpty(get(s, Null))),
          count |-> Some(count(s)), selector |-> Null]
    ELSE [ok |-> FALSE, value |-> Null, count |-> Null, selector |-> Some(s.selector)]

(***************************************************************************)
(* The queries the caller issues                                           *)
(***************************************************************************)
cssA == <<"a">>    \* a
cssP == <<"p">>    \* p
cssPText == <<"p",":",":","t","e","x","t">>    \* p::text
cssAAttr == <<"a",":",":","a","t","t","r","(","h",")">>    \* a::attr(h)
cssBad == <<"[">>    \* [
xP == <<"/","/","p">>    \* //p
xAP == <<"/","/","a","/","/","p">>    \* //a//p
xBA2 == <<"/","/","b","/","a","[","2","]">>    \* //b/a[2]
xALast == <<"/","/","a","[","l","a","s","t","(",")","]">>    \* //a[last()]
xAPosGt == <<"/","/","a","[","p","o","s","i","t","i","o","n","(",")",">","1","]">>    \* //a[position()>1]
xPText == <<"/","/","p",":",":","t","e","x","t">>    \* //p::text
xAH == <<"/","/","a","/","@","h">>    \* //a/@h
xParent == <<".",".">>    \* ..
xAH1 == <<"/","/","a","[","@","h","]","[","1","]">>    \* //a[@h][1]
xPTextNode == <<"/","/","p","/","t","e","x","t","(",")">>    \* //p/text()
xAGroupH == <<"/","/","a","[","(","p",")","]","[","@","h","]">>    \* //a[(p)][@h]
xPrecP == <<"p","r","e","c","e","d","i","n","g",":",":","p">>    \* preceding::p
xBad1 == <<"/","/","[","x">>    \* //[x
xBad2 == <<"/","/","a","[">>    \* //a[
xBad3 == <<"[","a">>    \* [a
xUnionPP == <<"/","/","p"," ","|"," ","/","/","p">>    \* //p | //p
xUnionTT == <<"/","/","p",":",":","t","e","x","t"," ","|"," ","/","/","p",":",":","t","e","x","t">>    \* //p::text | //p::text
xUnionTA == <<"/","/","p",":",":","t","e","x","t"," ","|"," ","/","/","a">>    \* //p::text | //a
xUnionAP == <<"/","/","a"," ","|"," ","/","/","p">>    \* //a | //p
xUnionPA == <<"/","/","p",":",":","t","e","x","t"," ","|"," ","/","/","a",":",":","t","e","x","t">>    \* //p::text | //a::text
CssQueries == {cssA, cssPText, cssAAttr, cssBad}
XPathQueries == {xP, xAP, xBA2, xAPosGt, xAH, xParent, xBad1, xBad2, xUnionPP, xUnionTT, xUnionTA,
                 xUnionPA, xPTextNode, xAGroupH}
BadXPaths == {xBad1, xBad2, xBad3}

Undefined == Null
Defaults == {Undefined, Some(<<>>), Some(<<"d">>)}     \* arguments of get(default)
EqIndexes == -1..1                                    \* arguments of eq(index)

(***************************************************************************)
(* Regular expressions (regex.ts).  A pattern is its source text; the      *)
(* engine below is that of the host for the patterns made of literal       *)
(* characters, escaped characters, groups (x), (?:x), a star closing the   *)
(* body of a group and a question mark after a group.                      *)
(***************************************************************************)
Item(kind, body, inner, outer) ==
    [kind |-> kind, body |-> body, inner |-> inner, outer |-> outer]

closeOf(src, i) == Min({j \in i..Len(src) : src[j] = ")"})
bodyOf(raw) == IF raw # <<>> /\ raw[Len(raw)] = "*" THEN SubSeq(raw, 1, Len(raw) - 1) ELSE raw
innerOf(raw) == IF raw # <<>> /\ raw[Len(raw)] = "*" THEN "star" ELSE "one"
isOpt(src, close) == close < Len(src) /\ src[close + 1] = "?"
outerOf(src, close) == IF isOpt(src, close) THEN "opt" ELSE "one"
groupOf(kind, raw, outer) == Item(kind, bodyOf(raw), innerOf(raw), outer)
groupAt(src, i, close) ==
    IF startsWith(slice(src, i), <<"?", ":">>)
    THEN groupOf("non", SubSeq(src, i + 3, close - 1), outerOf(src, close))
    ELSE groupOf("cap", SubSeq(src, i + 1, close - 1), outerOf(src, close))

\* new RegExp(source)
RECURSIVE compileFrom(_, _, _)
compileGroup(src, i, close, items) ==
    compileFrom(src, close + (IF isOpt(src, close) THEN 2 ELSE 1),
                Append(items, groupAt(src, i, close)))
compileFrom(src, i, items) ==
    IF i > Len(src) THEN items
    ELSE IF src[i] = "\\"
    THEN compileFrom(src, i + 2, Append(items, Item("lit", <<src[i + 1]>>, "one", "one")))
    ELSE IF src[i] = "(" THEN compileGroup(src, i, closeOf(src, i), items)
    ELSE compileFrom(src, i + 1, Append(items, Item("lit", <<src[i]>>, "one", "one")))
compile(source) == compileFrom(source, 1, <<>>)

\* how often body repeats in text from pos on
RECURSIVE countReps(_, _, _)
countReps(body, text, pos) ==
    IF body # <<>> /\ startsWith(slice(text, pos), body)
    THEN 1 + countReps(body, text, pos + Len(body)) ELSE 0
repeat(body, k) == Flatten([i \in 1..k |-> body])

\* the ways one item can match at pos, the preferred one first
Way(matched) == [len |-> Len(matched), cap |-> Some(matched)]
Skipped == [len |-> 0, cap |-> Null]            \* an optional group left out
greedy(body, n) == [j \in 1..(n + 1) |-> Way(repeat(body, n + 1 - j))]
baseWays(it, text, pos) ==
    IF it.inner = "star" THEN greedy(it.body, countReps(it.body, text, pos))
    ELSE IF startsWith(slice(text, pos), it.body) THEN <<Way(it.body)>>
    ELSE <<>>
ways(it, text, pos) ==
    IF it.outer = "opt" THEN Append(baseWays(it, text, pos), Skipped)
    ELSE baseWays(it, text, pos)

NoMatch == [ok |-> FALSE, index |-> 0, end |-> 0, caps |-> <<>>]

\* backtracking match of items[k..] at pos; caps are the groups so far
RECURSIVE matchItems(_, _, _, _, _)
RECURSIVE tryWays(_, _, _, _, _, _, _)
firstOk(r, items, k, text, pos, caps, ws, j) ==
    IF r.ok THEN r ELSE tryWays(items, k, text, pos, caps, ws, j + 1)
tryWays(items, k, text, pos, caps, ws, j) ==
    IF j > Len(ws) THEN NoMatch
    ELSE firstOk(matchItems(items, k + 1, text, pos + ws[j].len,
                            IF items[k].kind = "cap" THEN Append(caps, ws[j].cap) ELSE caps),
                 items, k, text, pos, caps, ws, j)
matchItems(items, k, text, pos, caps) ==
    IF k > Len(items) THEN [ok |-> TRUE, index |-> pos, end |-> pos, caps |-> caps]
    ELSE tryWays(items, k, text, pos, caps, ways(items[k], text, pos), 1)

\* RegExp.prototype.exec of a global regex whose lastIndex is `lastIndex`:
\* the leftmost match starting there or later, or null
RECURSIVE execFrom(_, _, _)
execAt(m, items, text, start) ==
    IF m.ok THEN [m EXCEPT !.index = start] ELSE execFrom(items, text, start + 1)
execFrom(items, text, start) ==
    IF start > Len(text) THEN NoMatch
    ELSE execAt(matchItems(items, 1, text, start, <<>>), items, text, start)
exec(items, text, lastIndex) == execFrom(items, text, lastIndex)

\* for (i = 1; i < match.length; i++) if (match[i] !== undefined) push
definedGroups(caps) == valuesOf(SelectSeq(caps, LAMBDA c : ~c.null))

\* regex.source.includes("(") && !regex.source.match(/^\(\?:/)
hasGroups(source) ==
    includes(source, <<"(">>) /\ ~startsWith(source, <<"(", "?", ":">>)

\* while ((match = globalRegex.exec(text)) !== null): exec sets lastIndex to
\* the end of the match, so a match ending where it was looked for is found
\* again by every later call and the loop does not return
RECURSIVE execLoop(_, _, _, _)
execLoopOn(match, items, text, lastIndex, results) ==
    IF ~match.ok THEN [returns |-> TRUE, values |-> results]
    ELSE IF match.end = lastIndex
    THEN [returns |-> FALSE, values |-> results \o definedGroups(match.caps)]
    ELSE execLoop(items, text, match.end, results \o definedGroups(match.caps))
execLoop(items, text, lastIndex, results) ==
    execLoopOn(exec(items, text, lastIndex), items, text, lastIndex, results)

\* text.match(globalRegex) ?? []: every match; after an empty match the
\* search goes on one character further
RECURSIVE matchAllFrom(_, _, _)
matchAllOn(m, items, text) ==
    IF ~m.ok THEN <<>>
    ELSE <<slice2(text, m.index, m.end)>>
         \o matchAllFrom(items, text, IF m.end = m.index THEN m.end + 1 ELSE m.end)
matchAllFrom(items, text, lastIndex) ==
    matchAllOn(exec(items, text, lastIndex), items, text)

\* extractRegex: [returns, values]
extractRegex(pattern, text) ==
    IF hasGroups(pattern) THEN execLoop(compile(pattern), text, 0, <<>>)
    ELSE [returns |-> TRUE, values |-> matchAllFrom(compile(pattern), text, 0)]

(***************************************************************************)
(* Projections: MappedSelectorImpl and JsonSelectorImpl                    *)
(***************************************************************************)
\* MappedSelectorImpl stores ok; JsonSelectorImpl computes it
MappedSelectorImpl(values, okFlag) ==
    [kind |-> "mapped", nodes |-> <<>>, values |-> values, selector |-> <<>>, ok |-> okFlag]
JsonSelectorImpl(values) ==
    [kind |-> "json", nodes |-> <<>>, values |-> values, selector |-> <<>>, ok |-> FALSE]

projOk(p) == IF p.kind = "json" THEN Len(p.values) > 0 ELSE p.ok
projGet(p, defaultValue) == firstOr(p.values, defaultValue)

\* the callbacks handed to map
MapFns == {"same", "blank"}
applyFn(fn, v) == IF fn = "same" THEN v ELSE <<>>

mapValues(values, fn) == [i \in 1..Len(values) |-> applyFn(fn, values[i])]
map(s, fn) == MappedSelectorImpl(mapValues(getall(s), fn), ok(s))

\* the patterns handed to re: y, p and (p)
RePatterns == {<<"y">>, <<"p">>, <<"(", "p", ")">>}
reValues(values, pattern) ==
    Flatten([i \in 1..Len(values) |-> extractRegex(pattern, values[i]).values])
\* whether every call of extractRegex made by flatMap returns
reReturns(values, pattern) ==
    \A i \in 1..Len(values) : extractRegex(pattern, values[i]).returns
reResults(results) == MappedSelectorImpl(results, Len(results) > 0)
re(s, pattern) == reResults(reValues(getall(s), pattern))

\* JSON.parse succeeds on a number literal and throws on the other texts of
\* the documents; jmespathSearch(value, "@") is the value, a field of a
\* number is null, and an expression that does not compile throws
JmesQueries == {<<"@">>, <<"a">>, <<"[">>}
jsonParses(v) == v # <<>> /\ span(v, Digits) = Len(v)
jmesCompiles(query) == query # <<"[">>
jmespathSearch(parsed, query) == IF query = <<"@">> THEN Some(parsed) ELSE Null

\* the body of the try block for one string: what it threw or produced
Threw == [threw |-> TRUE, result |-> Null]
Produced(r) == [threw |-> FALSE, result |-> r]
jmespathTry(v, query) ==
    IF ~jsonParses(v) \/ ~jmesCompiles(query) THEN Threw
    ELSE Produced(jmespathSearch(v, query))
\* if (result !== null && result !== undefined) results.push(result); the
\* catch block only logs
pushResult(results, outcome) ==
    IF outcome.threw \/ outcome.result.null THEN results
    ELSE Append(results, outcome.result.value)
jmespathOne(v, query) == pushResult(<<>>, jmespathTry(v, query))

\* the loop with the try block around it instead of inside it
RECURSIVE jmespathLoopAbort(_, _, _, _)
jmespathLoopAbort(values, query, i, results) ==
    IF i > Len(values) \/ jmespathTry(values[i], query).threw THEN results
    ELSE jmespathLoopAbort(values, query, i + 1,
                           pushResult(results, jmespathTry(values[i], query)))
\* for (const value of values) { try { ... } catch { ... } }
RECURSIVE jmespathLoop(_, _, _, _)
jmespathLoop(values, query, i, results) ==
    IF i > Len(values) THEN results
    ELSE jmespathLoop(values, query, i + 1,
                      pushResult(results, jmespathTry(values[i], query)))

jmespathValues(values, query) == jmespathLoop(values, query, 1, <<>>)
jmespath(s, query) == JsonSelectorImpl(jmespathValues(getall(s), query))

(***************************************************************************)
(* The state machine: a caller working on one document.  The caller keeps  *)
(* MaxSels variables (all start as the root, as in `let s = doc`) and      *)
(* assigns the result of every operation to one of them.                   *)
(***************************************************************************)
Idle == /\ pexpr = <<>> /\ remaining = <<>> /\ psteps = <<>> /\ ppc = "idle"
        /\ pstep = NoStep /\ premaining = <<>> /\ ppreds = <<>>
        /\ rxPattern = <<>> /\ rxText = <<>> /\ rxLastIndex = 0 /\ rxResults = <<>>
        /\ rxpc = "idle"

Init ==
    /\ docId \in 1..Len(Docs)
    /\ parentNode = InitParent(docId)
    /\ childNodes = InitChildren(docId)
    /\ sels = [j \in 1..MaxSels |-> pluck]
    /\ removedSels = {}
    /\ removedTags = {}
    /\ Idle

isSelector(s) == s.kind \in {"Selector", "TextSelector"}
\* every Selector the caller can reach, and every projection
Held == {pluck} \cup {s \in Range(sels) : isSelector(s)}
Projections == {s \in Range(sels) : ~isSelector(s)}

Assign(s) ==
    /\ Len(s.nodes) <= MaxCount
    /\ Len(s.values) <= MaxCount
    /\ \E j \in 1..MaxSels : sels' = [sels EXCEPT ![j] = s]
    /\ UNCHANGED <<domVars, removedSels, removedTags, parseVars, reVars>>

Css == \E s \in Held, q \in CssQueries : Assign(css(s, q))
XPath == \E s \in Held, q \in XPathQueries : Assign(xpath(s, q))
First == \E s \in Held : Assign(first(s))
Last == \E s \in Held : Assign(last(s))
Eq == \E s \in Held, i \in EqIndexes : Assign(eq(s, i))
Or == \E s \in Held, t \in Held : Assign(or(s, t))
\* each / toArray / the iterator hand out one Selector per element
Each == \E s \in Held : \E i \in 1..count(s) : Assign(toArray(s)[i])
Map == \E s \in Held, fn \in MapFns : Assign(map(s, fn))
Re == \E s \in Held, pat \in RePatterns :
        reReturns(getall(s), pat) /\ Assign(re(s, pat))
Jmespath == \E s \in Held, q \in JmesQueries : Assign(jmespath(s, q))

Next ==
    \/ Css \/ XPath \/ First \/ Last \/ Eq \/ Or \/ Each
    \/ Map \/ Re \/ Jmespath

Spec == Init /\ [][Next]_vars

(***************************************************************************)
(* The document under mutation: queries and remove()                       *)
(***************************************************************************)
DomCssQueries == {cssA, cssP}
DomXPathQueries == {xP, xParent, xAPosGt, xBA2, xAH1, xPText, xPTextNode}

\* doc.css(t): a temporary the caller chains remove() on
Temporaries == {css(pluck, t) : t \in DomCssQueries}

DomCss == \E s \in Held, q \in DomCssQueries : Assign(css(s, q))
DomXPath == \E s \in Held, q \in DomXPathQueries : Assign(xpath(s, q))
DomFirst == \E s \in Held : Assign(first(s))

SetTree(tree) == parentNode' = tree[1] /\ childNodes' = tree[2]

Remove ==
    \E s \in Held \cup Temporaries :
        /\ Cardinality(removedSels) < MaxRemoves
        /\ s \notin removedSels
        /\ SetTree(remove(s))
        /\ removedSels' = removedSels \cup {s}
        /\ removedTags' = removedTags \cup {t \in DomCssQueries : s = css(pluck, t)}
        /\ UNCHANGED <<docId, sels, parseVars, reVars>>

\* the projections leave the tree and the held Selectors alone
NextDom == DomCss \/ DomXPath \/ DomFirst \/ Remove \/ Or \/ Map \/ Re

SpecDom == Init /\ [][NextDom]_vars

(***************************************************************************)
(* parseXPath, one loop iteration at a time                                *)
(***************************************************************************)
ParseAlphabet == {"/", ".", "[", "]", "a", "'", "@", "*", " ", "1"}
eUnclosed == <<"/","/","a","[","@","h","=","'","u">>    \* //a[@h='u
eQuoted == <<"/","/","a","[","@","h","=","\"","]","\"","]","/","p">>    \* //a[@h="]"]/p
eNested == <<"/","/","a","[","p","[","1","]","]","[","2","]","x">>    \* //a[p[1]][2]x
eAxis == <<"a","n","c","e","s","t","o","r",":",":","*","/",".",".">>    \* ancestor::*/..
eText == <<"/","/","p","/","t","e","x","t","(",")","[","1","]">>    \* //p/text()[1]
eTwo == <<"a","[","1","]","[","b","]","/","@","h","/",".">>    \* a[1][b]/@h/.
eSpace == <<" ","/","/","a"," ","[","1","]"," ">>    \*  //a [1] 
ParseExprs ==
    UNION {[1..n -> ParseAlphabet] : n \in 0..MaxExprLen}
    \cup {eUnclosed, eQuoted, eNested, eAxis, eText, eTwo, eSpace}
    \cup XPathQueries

\* every value `remaining` can take while one of ParseExprs is parsed, and
\* what parseStep and parseSinglePredicate return on it
Remainders ==
    UNION {{slice(trim(e), i) : i \in 0..Len(trim(e))} : e \in ParseExprs}
    \cup UNION {{trimStart(slice(trim(e), i)) : i \in 0..Len(trim(e))} : e \in ParseExprs}
parseStepHeadOf == [r \in Remainders |-> parseStepHead(r)]
parseSinglePredicateOf == [r \in Remainders |-> parseSinglePredicate(r)]

\* parseXPath(expr): let remaining = expr.trim(); const steps = []
ParseCall ==
    /\ ppc = "idle"
    /\ \E expr \in ParseExprs :
        /\ pexpr' = expr
        /\ remaining' = trim(expr)
    /\ psteps' = <<>>
    /\ ppc' = "loop"
    /\ UNCHANGED <<domVars, selVars, reVars, pstep, premaining, ppreds>>

\* the iteration without `if (rest === remaining) break`
parseXPathIterNoBreak(steps, rem, step, rest) ==
    [steps |-> pushStep(steps, step), remaining |-> rest, pc |-> "loop"]

\* the end of one iteration of the loop of parseXPath, parseStep having
\* returned {step, rest}: [steps, remaining, pc] after it
parseXPathIter(steps, rem, step, rest) ==
    [steps |-> pushStep(steps, step),
     remaining |-> IF rest = rem THEN rem ELSE rest,
     pc |-> IF rest = rem THEN "done" ELSE "loop"]

EndIterationWith(n) ==
    /\ psteps' = n.steps
    /\ remaining' = n.remaining
    /\ ppc' = n.pc
    /\ pstep' = NoStep
    /\ premaining' = <<>>
    /\ ppreds' = <<>>

EndIteration(step, rest) == EndIterationWith(parseXPathIter(psteps, remaining, step, rest))

\* while (remaining.length > 0): the loop ends
ParseExit ==
    /\ ppc = "loop"
    /\ Len(remaining) = 0
    /\ ppc' = "done"
    /\ UNCHANGED <<domVars, selVars, reVars, pexpr, remaining, psteps, pstep, premaining, ppreds>>

AfterStepHead(h) ==
    IF h.preds
    THEN /\ ppc' = "preds"
         /\ pstep' = h.step
         /\ premaining' = h.rest
         /\ ppreds' = <<>>
         /\ UNCHANGED <<remaining, psteps>>
    ELSE EndIteration(h.step, h.rest)

\* parseStep up to its call of parsePredicates
ParseStepHead ==
    /\ ppc = "loop"
    /\ Len(remaining) > 0
    /\ AfterStepHead(parseStepHeadOf[remaining])
    /\ UNCHANGED <<domVars, selVars, reVars, pexpr>>

AfterPredicate(n) ==
    IF n.stop
    THEN EndIteration([pstep EXCEPT !.predicates = n.predicates], premaining)
    ELSE /\ ppreds' = n.predicates
         /\ premaining' = n.remaining
         /\ UNCHANGED <<remaining, psteps, ppc, pstep>>

\* one iteration of the loop of parsePredicates
ParsePredicate ==
    /\ ppc = "preds"
    /\ startsWith(premaining, <<"[">>)
    /\ AfterPredicate(parsePredicatesIterWith([predicates |-> ppreds, remaining |-> premaining],
                                              parseSinglePredicateOf[premaining]))
    /\ UNCHANGED <<domVars, selVars, reVars, pexpr>>

\* parsePredicates returns: no further bracket
ParsePredicatesExit ==
    /\ ppc = "preds"
    /\ ~startsWith(premaining, <<"[">>)
    /\ EndIteration([pstep EXCEPT !.predicates = ppreds], premaining)
    /\ UNCHANGED <<domVars, selVars, reVars, pexpr>>

NextParse == ParseCall \/ ParseExit \/ ParseStepHead \/ ParsePredicate \/ ParsePredicatesExit

SpecParse == Init /\ [][NextParse]_vars /\ WF_vars(NextParse)

(***************************************************************************)
(* extractRegex, one call of exec at a time                                *)
(***************************************************************************)
\* a, (a), (a)b, (a)?b, (a)(b), (?:a)b, b(?:a), \(a, (?:a)(b)
ReturningPatterns ==
    { <<"a">>, <<"(", "a", ")">>, <<"(", "a", ")", "b">>, <<"(", "a", ")", "?", "b">>,
      <<"(", "a", ")", "(", "b", ")">>, <<"(", "?", ":", "a", ")", "b">>,
      <<"b", "(", "?", ":", "a", ")">>, <<"\\", "(", "a">>,
      <<"(", "?", ":", "a", ")", "(", "b", ")">> }
\* (a*), (a)?, (a*)b, (?:a*)
EmptyMatchPatterns ==
    { <<"(", "a", "*", ")">>, <<"(", "a", ")", "?">>, <<"(", "a", "*", ")", "b">>,
      <<"(", "?", ":", "a", "*", ")">> }
RxPatterns == ReturningPatterns \cup EmptyMatchPatterns
RxAlphabet == {"a", "b", "("}
RxTexts == UNION {[1..n -> RxAlphabet] : n \in 0..MaxTextLen}

\* extractRegex(pattern, text) is called
ExtractCall ==
    /\ rxpc = "idle"
    /\ \E p \in RxPatterns, t \in RxTexts :
        /\ rxPattern' = p
        /\ rxText' = t
        /\ rxpc' = IF hasGroups(p) THEN "exec" ELSE "match"
    /\ UNCHANGED <<domVars, selVars, parseVars, rxLastIndex, rxResults>>

\* return text.match(globalRegex) ?? []
MatchAll ==
    /\ rxpc = "match"
    /\ rxResults' = matchAllFrom(compile(rxPattern), rxText, 0)
    /\ rxpc' = "done"
    /\ UNCHANGED <<domVars, selVars, parseVars, rxPattern, rxText, rxLastIndex>>

\* globalRegex.exec(text) found a match: the body of the while loop
ExecFound(match) ==
    /\ match.ok
    /\ rxResults' = rxResults \o definedGroups(match.caps)
    /\ rxLastIndex' = match.end
    /\ UNCHANGED <<domVars, selVars, parseVars, rxPattern, rxText, rxpc>>
ExecMatch ==
    /\ rxpc = "exec"
    /\ Len(rxResults) < MaxResults
    /\ ExecFound(exec(compile(rxPattern), rxText, rxLastIndex))

\* globalRegex.exec(text) returned null: return results
ExecNull ==
    /\ rxpc = "exec"
    /\ ~exec(compile(rxPattern), rxText, rxLastIndex).ok
    /\ rxpc' = "done"
    /\ rxLastIndex' = 0
    /\ UNCHANGED <<domVars, selVars, parseVars, rxPattern, rxText, rxResults>>

NextRe == ExtractCall \/ MatchAll \/ ExecMatch \/ ExecNull

SpecRe == Init /\ [][NextRe]_vars /\ WF_vars(NextRe)

(***************************************************************************)
(* Properties                                                              *)
(***************************************************************************)
DigitSeq == <<"0","1","2","3","4","5","6","7","8","9">>
RECURSIVE numeral(_)
numeral(k) == IF k < 10 THEN <<DigitSeq[k + 1]>>
              ELSE numeral(k \div 10) \o <<DigitSeq[(k % 10) + 1]>>

Dedup(seq) == SelectSeq([i \in 1..Len(seq) |-> [i |-> i, v |-> seq[i]]],
                        LAMBDA e : indexOf(seq, e.v) = e.i - 1)
DedupNodes(seq) == LET d == Dedup(seq) IN [i \in 1..Len(d) |-> d[i].v]

\* C1: every Selector the caller can reach from pluck(html) through css,
\* xpath, first, last, eq, or, each, toArray and iteration has ok true
\* exactly when its count is positive, whether it holds nodes or strings.
C1_OkIffCount == \A s \in Held : ok(s) <=> (count(s) > 0)

C1_Witness ==
    \E j \in 1..MaxSels :
        sels[j].kind = "TextSelector" /\ ok(sels[j]) /\ count(sels[j]) >= 2

\* C2: xpath(q) with a query the parser cannot fully consume returns a
\* Selector with ok false, count 0 and get() null, on every receiver and
\* every document.
C2_BadXPathIsEmpty ==
    \A s \in Held : \A q \in BadXPaths :
        /\ ~ok(xpath(s, q))
        /\ count(xpath(s, q)) = 0
        /\ get(xpath(s, q), Undefined) = Null

\* C3: parseXPath terminates on every expression: an iteration of its loop
\* that goes round again has strictly shortened `remaining`, an iteration of
\* the loop of parsePredicates that goes round again has strictly shortened
\* its own `remaining`, and the parser reaches its return.
C3_Shortens ==
    /\ (ppc \in {"loop", "preds"} /\ ppc' = "loop") => Len(remaining') < Len(remaining)
    /\ (ppc = "preds" /\ ppc' = "preds") => Len(premaining') < Len(premaining)

C3_ParseTerminates == [][C3_Shortens]_vars /\ <>(ppc = "done")

C3_Witness ==
    /\ ppc = "done"
    /\ pexpr = eUnclosed
    /\ Len(psteps) = 1
    /\ remaining # <<>>

\* C4: for every Selector and every projection (map, re, jmespath) with ok
\* false and every default value d, get(d) returns d and never null.
okOf(s) == IF isSelector(s) THEN ok(s) ELSE projOk(s)
getOf(s, d) == IF isSelector(s) THEN get(s, d) ELSE projGet(s, d)

C4_DefaultReturned ==
    \A s \in Held \cup Projections : \A d \in Defaults \ {Undefined} :
        ~okOf(s) => getOf(s, d) = d

C4_Witness ==
    \E j \in 1..MaxSels :
        /\ ~isSelector(sels[j])
        /\ ~projOk(sels[j])
        /\ projGet(sels[j], Some(<<>>)) = Some(<<>>)

\* C5: once doc.css(t).remove() has run for a tag name t, doc.css(t) on the
\* root Selector has ok false from then on, whatever was queried or removed
\* in between and also when the matched elements were nested in each other.
C5_RemovedTagGone == \A t \in removedTags : ~ok(css(pluck, t))

C5_Witness ==
    /\ docId = 1
    /\ cssA \in removedTags
    /\ parentNode[1] = NoNode
    /\ parentNode[2] = NoNode

UnionSep == <<" ", "|", " ">>
MixedUnions == {<<xPText, xP>>, <<xPText, cssA>>, <<xP, xAH>>, <<xP, xBA2>>, <<xPText, xAH>>}
C7_UnionKeepsAll ==
    \A s \in Held : \A u \in MixedUnions :
        \A k \in 1..2 :
            Range(getall(xpath(s, u[k]))) \subseteq
                Range(getall(xpath(s, u[1] \o UnionSep \o u[2])))

\* C8: a union de-duplicates nodes and only nodes: xpath("e | e") holds the
\* nodes of xpath("e"), each once and in first-seen order, and
\* xpath("e::text | e::text") holds the strings of xpath("e::text") twice.
NodeExprs == {xP, xAP, xBA2, xParent}
C8_UnionDedup ==
    \A s \in Held : \A e \in NodeExprs :
        LET one == xpath(s, e)
            two == xpath(s, e \o UnionSep \o e)
            oneT == xpath(s, e \o kPseudoText)
            twoT == xpath(s, e \o kPseudoText \o UnionSep \o e \o kPseudoText)
        IN  /\ two.kind = "Selector"
            /\ two.nodes = DedupNodes(one.nodes)
            /\ twoT.values = oneT.values \o oneT.values

C8_Witness ==
    \E j \in 1..MaxSels :
        /\ sels[j].selector = xUnionTT
        /\ count(sels[j]) = 2
        /\ sels[j].values[1] = sels[j].values[2]
        /\ Len(xpath(pluck, xAP).nodes) > Len(xpath(pluck, xAP \o UnionSep \o xAP).nodes)

\* C9: on the n candidates c1..cn the node test yields for one context node,
\* [position() > k] keeps c(k+1)..cn in order, [position() < k] keeps
\* c1..c(k-1), [k] keeps exactly ck (nothing when k > n or k = 0) and
\* [last()] keeps exactly cn.
PredGt == [k \in 0..MaxK |-> parsePredicateContent(kPosition \o <<" ", ">", " ">> \o numeral(k))]
PredLt == [k \in 0..MaxK |-> parsePredicateContent(kPosition \o <<" ", "<", " ">> \o numeral(k))]
PredIdx == [k \in 0..MaxK |-> parsePredicateContent(numeral(k))]
PredLast == parsePredicateContent(kLast)
PosAxes == {"child", "descendant"}
PosTests == {[type |-> "any", name |-> <<>>], [type |-> "name", name |-> <<"a">>],
             [type |-> "node", name |-> <<>>]}
Upto(m, k) == IF k < Len(m) THEN k ELSE Len(m)

C9_Positions ==
    \A s \in Held : \A c \in Range(s.nodes) : \A axis \in PosAxes : \A test \in PosTests :
        LET m == filterByNodeTest(getCandidates(axis, c), test)
            n == Len(m)
        IN  /\ applyPredicates(m, <<PredLast>>) = IF n > 0 THEN <<m[n]>> ELSE <<>>
            /\ \A k \in 0..MaxK :
                /\ applyPredicates(m, <<PredGt[k]>>) = SubSeq(m, Upto(m, k) + 1, n)
                /\ applyPredicates(m, <<PredLt[k]>>) = SubSeq(m, 1, Upto(m, k - 1))
                /\ applyPredicates(m, <<PredIdx[k]>>) =
                      IF k \in 1..n THEN <<m[k]>> ELSE <<>>

C9_Witness ==
    \E j \in 1..MaxSels :
        /\ sels[j].selector = xAPosGt
        /\ docId = 2
        /\ sels[j].nodes = <<3, 6, 8>>

\* C10: a step with an integer predicate [k] applied to several context
\* nodes counts k inside each context node's own candidates: every context
\* contributes its own k-th candidate, as in tr/td[2].
xB == <<"/", "/", "b">>     \* //b
RowCell == [k \in 1..MaxK |-> xB \o <<"/", "a", "[">> \o numeral(k) \o <<"]">>]
RowCellSteps == [k \in 1..MaxK |-> parseXPath(RowCell[k])]
kthOf(m, k) == IF k \in 1..Len(m) THEN <<m[k]>> ELSE <<>>
nodesOf(results) == [i \in 1..Len(results) |-> results[i].n]

C10_PerContextIndex ==
    \A s \in Held : \A k \in 1..MaxK :
        LET rows == nodesOf(evaluateSingleXPath(xB, s.nodes))
            cells(r) == filterByNodeTest(getCandidates("child", r),
                                         [type |-> "name", name |-> <<"a">>])
        IN  nodesOf(evaluateSteps(RowCellSteps[k], 1, [i \in 1..Len(s.nodes) |-> Nd(s.nodes[i])]))
              = Flatten([i \in 1..Len(rows) |-> kthOf(cells(rows[i]), k)])

C10_Witness ==
    \E j \in 1..MaxSels :
        /\ sels[j].selector = xBA2
        /\ sels[j].nodes = <<3, 8>>

\* C11 as stated: in a[@h][k] and a[@h][last()] the second bracket counts
\* positions in the full list the node test gave: the step keeps the nodes
\* that carry h and stand at place k (or last) among all matches.
HasH == <<"a", "[", "@", "h", "]">>     \* a[@h]
FilteredIdx == [k \in 1..MaxK |-> parseXPath(HasH \o <<"[">> \o numeral(k) \o <<"]">>)]
FilteredLast == parseXPath(HasH \o <<"[">> \o kLast \o <<"]">>)
PredHasH == parsePredicateContent(<<"@", "h">>)
namedA(c) == filterByNodeTest(getCandidates("child", c), [type |-> "name", name |-> <<"a">>])
withH(m) == SelectSeq(m, LAMBDA n : hasAttribute(n, <<"h">>))
stepFrom(steps, c) == nodesOf(evaluateSteps(steps, 1, <<Nd(c)>>))
lastOf(m) == IF Len(m) > 0 THEN <<m[Len(m)]>> ELSE <<>>
Contexts == UNION {Range(s.nodes) : s \in Held}

fullSetAt(m, c) ==
    /\ stepFrom(FilteredLast, c) = withH(lastOf(m))
    /\ \A k \in 1..MaxK : stepFrom(FilteredIdx[k], c) = withH(kthOf(m, k))
C11_FullSetPosition == \A c \in Contexts : fullSetAt(namedA(c), c)

\* C11 amended: each bracket filters the list the bracket before it left:
\* a[@h][k] keeps the k-th of the matches that carry h, and a[@h][last()]
\* the last of them; only the first bracket sees the full list of the node
\* test.
survivorsAt(sv, c) ==
    /\ stepFrom(FilteredLast, c) = lastOf(sv)
    /\ \A k \in 1..MaxK : stepFrom(FilteredIdx[k], c) = kthOf(sv, k)
C11_SurvivorPosition == \A c \in Contexts : survivorsAt(withH(namedA(c)), c)

C11_Witness ==
    \E j \in 1..MaxSels :
        /\ docId = 2
        /\ sels[j].selector = xAH1
        /\ sels[j].nodes = <<3>>
        /\ indexOf(xpath(pluck, <<"/", "/", "a">>).nodes, 3) = 1

\* C12: for every context node c attached to the document, the following
\* axis gives exactly the nodes after c in document order that are not
\* descendants of c, and the preceding axis exactly the nodes before c that
\* are not ancestors of c, both in document order.
docOrder == <<0>> \o getDescendants(0)
placeOf(n) == indexOf(docOrder, n)
nodesAfter(c) == SelectSeq(docOrder, LAMBDA n : placeOf(n) > placeOf(c) /\ ~contains(c, n))
nodesBefore(c) == SelectSeq(docOrder, LAMBDA n : placeOf(n) < placeOf(c) /\ ~contains(n, c))
axesExactAt(c) ==
    /\ getCandidates("following", c) = nodesAfter(c)
    /\ getCandidates("preceding", c) = nodesBefore(c)
C12_AxesExact == \A c \in Range(docOrder) : axesExactAt(c)

\* C13: every value of css("X::text") and of xpath("X::text") is a
\* non-empty string without leading or trailing whitespace, and the count
\* is the number of matches of X whose trimmed text is not empty.
xA == <<"/", "/", "a">>     \* //a
CssTextBases == {cssA, cssP, <<"*">>}
XPathTextBases == {xP, xA, xAP, xAH}
trimmedValues(values) == \A i \in 1..Len(values) : values[i] # <<>> /\ trim(values[i]) = values[i]
\* the trimmed text of every match of X, nodes or attribute values
matchTexts(m) ==
    IF m.kind = "TextSelector" THEN [i \in 1..Len(m.values) |-> trim(m.values[i])]
    ELSE [i \in 1..Len(m.nodes) |-> trimmedText(m.nodes[i])]
nonEmptyCount(texts) == Cardinality({i \in 1..Len(texts) : texts[i] # <<>>})
textModeOf(withText, matches) ==
    /\ trimmedValues(getall(withText))
    /\ count(withText) = nonEmptyCount(matchTexts(matches))
C13_TextValuesTrimmed ==
    \A s \in Held :
        /\ \A x \in CssTextBases : textModeOf(css(s, x \o kPseudoText), css(s, x))
        /\ \A x \in XPathTextBases : textModeOf(xpath(s, x \o kPseudoText), xpath(s, x))

\* C14: css(q) with a query the native matcher rejects gives, on every
\* receiver (also an empty one and one holding strings), a Selector with ok
\* false and count 0, and hands a warn-level record to the logger.
cssBad2 == <<"[", "[", "a">>     \* [[a
RejectedCss == {cssBad, cssBad2, cssBad \o kPseudoText}
C14_BadCssWarns ==
    \A s \in Held : \A q \in RejectedCss :
        /\ ~ok(css(s, q))
        /\ count(css(s, q)) = 0
        /\ \E i \in 1..Len(cssWarnings(s, q)) : cssWarnings(s, q)[i].level = "warn"

\* C15: extractRegex returns the values of the defined groups of every
\* match exactly when the pattern has a capturing group, and the full text
\* of every match when it has none (escaped parentheses and non-capturing
\* groups are not capturing groups).
isCapturing(items) == \E k \in 1..Len(items) : items[k].kind = "cap"
\* every match of the pattern in text, left to right
RECURSIVE everyMatchFrom(_, _, _)
everyMatchOn(m, items, text) ==
    IF ~m.ok THEN <<>>
    ELSE <<m>> \o everyMatchFrom(items, text, IF m.end = m.index THEN m.end + 1 ELSE m.end)
everyMatchFrom(items, text, from) == everyMatchOn(exec(items, text, from), items, text)
groupValuesOf(ms) == Flatten([i \in 1..Len(ms) |-> definedGroups(ms[i].caps)])
fullTextsOf(ms, text) == [i \in 1..Len(ms) |-> slice2(text, ms[i].index, ms[i].end)]
valuesClaimed(items, text) ==
    IF isCapturing(items) THEN groupValuesOf(everyMatchFrom(items, text, 0))
    ELSE fullTextsOf(everyMatchFrom(items, text, 0), text)
C15_GroupsIffCapturing ==
    (rxpc = "done" /\ rxPattern \in ReturningPatterns)
        => rxResults = valuesClaimed(compile(rxPattern), rxText)

\* C16: every call of extractRegex (and so re and re_first) returns, also
\* for a pattern whose capturing group can match the empty string.
C16_ReReturns == (rxpc # "idle") ~> (rxpc = "done")

\* C17: jmespath(q) returns, in source order, the non-null result of every
\* source string that parses as JSON and is queried without error; a string
\* that fails contributes nothing and the strings after it are still
\* processed.
succeeds(v, q) == jsonParses(v) /\ jmesCompiles(q) /\ ~jmespathSearch(v, q).null
resultsOf(good, q) == [i \in 1..Len(good) |-> jmespathSearch(good[i], q).value]
jmespathClaimed(values, q) == resultsOf(SelectSeq(values, LAMBDA v : succeeds(v, q)), q)
C17_JmespathPerString ==
    \A s \in Held : \A q \in JmesQueries :
        jmespath(s, q).values = jmespathClaimed(getall(s), q)

C17_Witness ==
    \E j \in 1..MaxSels :
        /\ sels[j] = jmespath(xpath(pluck, xUnionPA), <<"@">>)
        /\ sels[j].values = << <<"1">> >>
        /\ getall(xpath(pluck, xUnionPA)) = << <<"y">>, <<"1">> >>

\* C18: on a Selector holding v0..v(n-1), eq(i) holds exactly vi when
\* 0 <= i < n and has ok false otherwise, first() is eq(0) and last() is
\* eq(n-1), for nodes and for strings, the empty string included.
heldBy(s) == IF s.kind = "TextSelector" THEN s.values ELSE s.nodes
eqAt(s, i, e) ==
    IF i \in 0..(count(s) - 1)
    THEN e.kind = s.kind /\ count(e) = 1 /\ heldBy(e) = <<heldBy(s)[i + 1]>>
    ELSE e.kind = s.kind /\ ~ok(e) /\ count(e) = 0
C18_Positional ==
    \A s \in Held :
        /\ \A i \in -1..(MaxCount + 1) : eqAt(s, i, eq(s, i))
        /\ first(s) = eq(s, 0)
        /\ last(s) = eq(s, count(s) - 1)

C18_Witness ==
    \E j \in 1..MaxSels :
        /\ sels[j].selector = xAH
        /\ sels[j].values = << <<>> >>
        /\ eq(xpath(pluck, xAH), 0) = sels[j]
        /\ count(xpath(pluck, xAH)) = 2

\* C19: on an element without attribute h, [@h] is false, and [@h='v'],
\* [contains(@h,'v')], [starts-with(@h,'v')] and [ends-with(@h,'v')] have
\* the truth value they have on an element whose h is the empty string,
\* for every v, the empty string included.
AttrValues == {<<>>, <<"u">>}
quoted(v) == <<"'">> \o v \o <<"'">>
attrCall(fn, v) == fn \o <<"(", "@", "h", ",">> \o quoted(v) \o <<")">>
AttrTests(v) ==
    { parsePredicateContent(<<"@", "h", "=">> \o quoted(v)),
      parsePredicateContent(attrCall(kContains, v)),
      parsePredicateContent(attrCall(kStartsWith, v)),
      parsePredicateContent(attrCall(kEndsWith, v)) }
Elements == {n \in Nodes : nodeType(n) = ELEMENT_NODE}
Lacking == {n \in Elements : ~hasAttribute(n, <<"h">>)}
EmptyValued == {n \in Elements : hasAttribute(n, <<"h">>) /\ attrOrEmpty(n, <<"h">>) = <<>>}
holdsOn(n, pred) == evaluatePredicate(n, pred, <<n>>)
C19_MissingAsEmpty ==
    \A n \in Lacking :
        /\ ~holdsOn(n, PredHasH)
        /\ \A e \in EmptyValued : \A v \in AttrValues : \A pred \in AttrTests(v) :
              holdsOn(n, pred) = holdsOn(e, pred)

\* C20: the ok and count of a Selector that exists do not change, whatever
\* is called afterwards on it or on another Selector of the document:
\* every step leaves them as they were, remove() included.
Existing == Held \cup removedSels
C20_Unchanged == \A s \in Existing : ok(s)' = ok(s) /\ count(s)' = count(s)
theTree == <<parentNode, childNodes>>
JustRemoved == removedSels' \ removedSels
holdsNothingToDetach(s) == ~ok(s) \/ s.kind = "TextSelector" \/ s = pluck
C21_RemoveStep ==
    \A s \in JustRemoved :
        /\ \A i \in 1..Len(s.nodes) :
              nodeType(s.nodes[i]) \in {ELEMENT_NODE, TEXT_NODE}
                  => parentNode'[s.nodes[i]] = NoNode
        /\ remove(s)' = theTree'
        /\ holdsNothingToDetach(s) => theTree' = theTree
C21_RemoveIdempotent == [][C21_RemoveStep]_vars

C21_Witness ==
    \E s \in removedSels :
        /\ s.selector = xPTextNode
        /\ count(s) = 2
        /\ \A i \in 1..Len(s.nodes) :
              nodeType(s.nodes[i]) = TEXT_NODE /\ parentNode[s.nodes[i]] = NoNode
        /\ remove(s) = theTree

\* C22 as stated: result().ok equals s.ok; when s.ok is true the record
\* carries count equal to s.count and value equal to what s.get() returns;
\* when s.ok is false it carries the query string of s as selector and no
\* value.
Undef == Null
failureOf(r, q) == ~r.ok /\ r.selector = Some(q) /\ r.value = Null /\ r.count = Null
resultOkAndCount(s, r) ==
    /\ r.ok = ok(s)
    /\ ok(s) => r.count = Some(count(s)) /\ r.selector = Null
    /\ ~ok(s) => failureOf(r, s.selector)
failedQueries(s) ==
    /\ \A q \in CssQueries : ~ok(css(s, q)) => failureOf(result(css(s, q)), q)
    /\ \A q \in XPathQueries : ~ok(xpath(s, q)) => failureOf(result(xpath(s, q)), q)
C22_ResultMirrorsGet ==
    \A s \in Held :
        /\ resultOkAndCount(s, result(s))
        /\ failedQueries(s)
        /\ ok(s) => result(s).value = get(s, Undef)

\* C22 amended: as above, except that value is the string s.get() returns
\* when it returns one and the empty string when s.get() returns null,
\* which happens with ok true when no held node has a non-empty value (the
\* root Selector, a whitespace-only text node).
valueOrEmpty(s, r) ==
    IF get(s, Undef).null THEN r.value = Some(<<>>) ELSE r.value = get(s, Undef)
C22_ResultValueOrEmpty ==
    \A s \in Held :
        /\ resultOkAndCount(s, result(s))
        /\ failedQueries(s)
        /\ ok(s) => valueOrEmpty(s, result(s))

C22_Witness ==
    \E j \in 1..MaxSels :
        /\ sels[j].selector = xPTextNode
        /\ sels[j].nodes = <<10>>
        /\ ok(sels[j])
        /\ get(sels[j], Undef) = Null
        /\ result(sels[j]) = [ok |-> TRUE, value |-> Some(<<>>), count |-> Some(1),
                              selector |-> Null]

\* C23: the predicate [tag] keeps an element exactly when it has a direct
\* child element named tag; an element whose only tag elements are
\* grandchildren or deeper is not kept.
TagNames == {<<"a">>, <<"p">>, <<"b">>}
anyWith(body) == <<"/", "/", "*", "[">> \o body \o <<"]">>     \* //*[body]
hasChildNamed(n, tag) ==
    \E i \in 1..Len(childNodes[n]) :
        /\ nodeType(childNodes[n][i]) = ELEMENT_NODE
        /\ toLowerCase(tagName(childNodes[n][i])) = tag
allElements == SelectSeq(getDescendants(0), LAMBDA n : nodeType(n) = ELEMENT_NODE)
C23_DirectChildOnly ==
    \A tag \in TagNames :
        xpath(pluck, anyWith(tag)).nodes
            = SelectSeq(allElements, LAMBDA n : hasChildNamed(n, tag))

\* C24: translate(., from, to)='v' holds for a node exactly when the XPath
\* translate of its trimmed text is v: every character of the text is
\* mapped in one pass (from[i] becomes to[i], or is deleted when to is
\* shorter), also when from and to share characters.
FromTo == {<<"a", "b">>, <<"b", "a">>, <<"a">>, <<"x", "a">>, <<>>}
TranslateValues == {<<"a", "b">>, <<"b", "a">>, <<"a", "a">>, <<"b", "b">>, <<"b">>, <<"y">>, <<>>}
translateCall(from, to, v) ==
    kTranslate \o <<"(", ".", ",", " ">> \o quoted(from) \o <<",", " ">> \o quoted(to)
        \o <<")", "=">> \o quoted(v)
xpathTranslate(text, from, to) ==
    Flatten([i \in 1..Len(text) |->
        LET hit == {j \in 1..Len(from) : from[j] = text[i]} IN
        IF hit = {} THEN <<text[i]>>
        ELSE IF Min(hit) <= Len(to) THEN <<to[Min(hit)]>> ELSE <<>>])
C24_TranslateOnePass ==
    \A from \in FromTo, to \in FromTo, v \in TranslateValues :
        xpath(pluck, anyWith(translateCall(from, to, v))).nodes
            = SelectSeq(allElements, LAMBDA n : xpathTranslate(trimmedText(n), from, to) = v)

\* C25: a bracket whose body matches none of the known forms and is not a
\* bare identifier yields no predicate: the step selects what it selects
\* with that bracket deleted, the other brackets of the step still apply,
\* and the query returns as any other.
UnknownBodies ==
    { <<"(", "p", ")">>,                      \* (p)
      <<"(", "@", "h", ")">>,                 \* (@h)
      <<"@", "h", "=", "1">>,                 \* @h=1
      <<"1", ".", "5">>,                      \* 1.5
      <<"p", "[", "1", "]">>,                 \* p[1]
      <<"p", " ", "a">>,                      \* p a
      <<"'", "]", "'">>,                      \* ']'
      <<"n", "o", "t", "(", "p", " ", "a", ")">>,     \* not(p a)
      <<>> }
bracket(body) == <<"[">> \o body \o <<"]">>
\* the brackets before and after the unknown one, and the rest of the path
Around ==
    { << <<>>, <<>>, <<>> >>,
      << <<"[", "@", "h", "]">>, <<>>, <<>> >>,
      << <<>>, <<"[", "1", "]">>, <<>> >>,
      << <<>>, <<"[", "@", "h", "]">>, <<"/", ".", ".">> >>,
      << <<"[", "p", "]">>, <<"[">> \o kLast \o <<"]">>, <<"/", "p">> >> }
StepHeads == { <<"/", "/", "a">>, <<"/", "/", "*">> }
sameMatches(r, t) == r.kind = t.kind /\ r.nodes = t.nodes /\ r.values = t.values
isUnknown(body) == parsePredicateContent(body) = NoPred
bracketIgnored(s, h, u, ar) ==
    sameMatches(xpath(s, h \o ar[1] \o bracket(u) \o ar[2] \o ar[3]),
                xpath(s, h \o ar[1] \o ar[2] \o ar[3]))
KnownBodies ==
    { <<"@", "h">>,                                        \* @h
      <<"p">>,                                             \* p
      <<"@", "h", "=", "'", "u", "'">>,                    \* @h='u'
      kNot \o <<"(", "a", ")">>,                           \* not(a)
      kText \o <<"=", "'", "y", "'">> }                     \* text()='y'
GroupBodies == { <<"(", "p", ")">>, <<"(", "@", "h", ")">> }     \* (p), (@h)
joined(A, op, B) == bracket(A \o op \o B)
commutes(s, h, A, B) ==
    /\ sameMatches(xpath(s, h \o joined(A, kAnd, B)), xpath(s, h \o joined(B, kAnd, A)))
    /\ sameMatches(xpath(s, h \o joined(A, kOr, B)), xpath(s, h \o joined(B, kOr, A)))
C26_AndOrCommute ==
    \A s \in Held : \A h \in StepHeads :
        \A A \in KnownBodies, B \in KnownBodies \cup GroupBodies : commutes(s, h, A, B)

\* C27: for every context node c attached to the document, other than the
\* document node, the sets {c}, ancestor(c), descendant(c), following(c)
\* and preceding(c) that getCandidates computes are pairwise disjoint and
\* together are all the nodes of the document tree, the document node
\* being one of the ancestors.
PartitionAxes == <<"self", "ancestor", "descendant", "following", "preceding">>
axisSet(k, c) == Range(getCandidates(PartitionAxes[k], c))
Attached == Range(docOrder) \ {0}
partitionsTree(c) ==
    /\ \A j \in 1..5, k \in 1..5 : j < k => axisSet(j, c) \cap axisSet(k, c) = {}
    /\ UNION {axisSet(k, c) : k \in 1..5} = Range(docOrder)
    /\ 0 \in axisSet(2, c)
C27_AxesPartition == \A c \in Attached : partitionsTree(c)

C27_Witness ==
    /\ docId = 2
    /\ parentNode[2] = NoNode
    /\ 7 \in Attached
    /\ \A k \in 1..5 : axisSet(k, 7) # {}
    /\ 2 \notin UNION {axisSet(k, 7) : k \in 1..5}

\* C28: the node list of every Selector returned by css(q) or by xpath(q)
\* without a union holds no node twice, also when the receiver holds
\* context nodes nested in one another.
noNodeTwice(nodes) == \A i \in 1..Len(nodes), j \in 1..Len(nodes) : i < j => nodes[i] # nodes[j]
NodeCss == {cssA, cssP, <<"*">>}
PlainXPaths == {xP, xAP, xA, xParent, xAH1, <<"/", "/", "*">>, <<"p">>}
C28_NoNodeTwice ==
    \A s \in Held :
        /\ \A q \in NodeCss : noNodeTwice(css(s, q).nodes)
        /\ \A q \in PlainXPaths : noNodeTwice(xpath(s, q).nodes)

isBlankNode(n) ==
    \/ nodeType(n) = DOCUMENT_NODE
    \/ nodeType(n) = TEXT_NODE /\ trim(nodeData(n)) = <<>>
blankHeld(s) == {i \in 1..Len(s.nodes) : isBlankNode(s.nodes[i])}
heldNodes(s) == Range(s.nodes)
underHeld(s, n) == \E h \in heldNodes(s) : contains(h, n)
detachedBy(s) == {n \in heldNodes(s) : parentNode[n] # NoNode}
without(children, gone) == SelectSeq(children, LAMBDA c : c \notin gone)
outsideKept(s) ==
    \A n \in Nodes :
        ~underHeld(s, n) =>
            /\ parentNode'[n] = parentNode[n]
            /\ childNodes'[n] = without(childNodes[n], detachedBy(s))
C30_RemoveStep ==
    \A s \in JustRemoved :
        /\ outsideKept(s)
        /\ \A d \in detachedBy(s) : childNodes'[d] = childNodes[d]
C30_RemoveFrame == [][C30_RemoveStep]_vars

\* C30 amended: as above, except that a detached node keeps those of its
\* children that s does not hold as well, in their order; and every node
\* s does not hold keeps its parent, inside the detached subtrees too.
C30_NestedStep ==
    \A s \in JustRemoved :
        /\ outsideKept(s)
        /\ \A n \in Nodes \ heldNodes(s) : parentNode'[n] = parentNode[n]
        /\ \A d \in detachedBy(s) :
              /\ parentNode'[d] = NoNode
              /\ childNodes'[d] = without(childNodes[d], heldNodes(s))
C30_RemoveFrameNested == [][C30_NestedStep]_vars

C30_Witness ==
    \E s \in removedSels :
        /\ docId = 1
        /\ s.nodes = <<1, 2>>
        /\ parentNode[1] = NoNode /\ parentNode[2] = NoNode
        /\ childNodes[1] = <<5>>
        /\ childNodes[2] = <<3>>
        /\ parentNode[5] = 1 /\ parentNode[3] = 2

====
